---- MODULE Spec2Model ----
(***************************************************************************)
(* The hybrid recommendation engine of the movie recommender                *)
(* (services/recommendationEngine.ts): cosineSimilarity, ContentBasedFilter,*)
(* CollaborativeFilter and HybridRecommendationEngine.                      *)
(*                                                                          *)
(* Numbers.  The engine computes in IEEE doubles; the model computes in     *)
(* fixed point:                                                             *)
(*   - a feature-vector slot is an integer number of 1/FP                   *)
(*     (FP = 10: the binary slot 1 is 10, the neutral 0.5 is 5);            *)
(*   - averageRating and minRating are integer tenths (4.5 is 45);          *)
(*   - a score is an integer number of 1/SCALE (SCALE = 1000);              *)
(*   - a division and a square root round down (\div) where the double     *)
(*     would round to the nearest representable value; a magnitude is an    *)
(*     integer number of 1/ROOT;                                            *)
(*   - a division by zero raises nothing in JavaScript: it gives Infinity   *)
(*     or NaN, which the model writes NotFinite.                            *)
(* An absent optional number (year, averageRating, minRating, a yearRange   *)
(* end) is NoVal; an absent optional string (director, similarToItemId) is  *)
(* NoStr; an absent array (filter.genres ...) is the empty sequence, which  *)
(* the code treats exactly like an absent one (`x && x.length > 0`).        *)
(* Arrays and Maps are sequences: a JS Map iterates in insertion order.     *)
(***************************************************************************)
EXTENDS Integers, Sequences, FiniteSets, TLC

VARIABLES
  allItems,    \* the catalog handed to the engine (Movie[])
  allRatings,  \* the rating log handed to the engine (Rating[])
  userPrefs,   \* UserPreferences, or NoPrefs for null
  filter,      \* the RecommendationFilter of the last call
  count,       \* the count of the last call
  now,         \* Date.now() as the last call read it, in days (0: not read)
  call,        \* the entry point called last ("none" before any call)
  target,      \* the target of the last similar-items ranking: <<>> or <<item>>
  filteredItems,   \* getRecommendations' local filteredItems when it returned
  working,         \* getRecommendations' local `recommendations` before the merge
  result,      \* the Recommendation[] the last call returned
  cosVec1,     \* the first vector cosineSimilarity was last applied to
  cosVec2,     \* the second
  cosine,      \* what it returned
  vocItems,    \* the items a vocabulary was last asked for
  vocCall,     \* which one: "genres", "moods" or "tags" ("none" before any)
  vocabulary,  \* the string[] getAllGenres, getAllMoods or getAllTags returned
  ratingsStore,    \* localStorage rec_system_ratings, parsed (absent: empty)
  itemsStore,      \* localStorage rec_system_items: present or not, and parsed
  userIdStore,     \* localStorage rec_system_user_id (NoStr: absent)
  clock,           \* Date.now(), which also numbers the ids generated
  upsertArgs,      \* the arguments of the last ratingsApi.upsert
  upsertReturned,  \* the Rating it returned: <<>> or <<rating>>
  supabaseConfigured,  \* Boolean(supabaseUrl && supabaseAnonKey)
  supabaseAvailable,   \* the module variable of services/supabase.ts
  disabledKey,     \* localStorage supabase_disabled is 'true'
  reads,           \* the read in progress or last made, per API
  lastOp           \* the operation of the data service that ran last

\* the variables of the calls on the engine
engineVars == <<allItems, allRatings, userPrefs, filter, count, now, call, target,
                filteredItems, working, result>>

\* the variables of a call of cosineSimilarity on its own
cosineVars == <<cosVec1, cosVec2, cosine>>

\* the variables a call on the engine has nothing to do with
vocabularyVars == <<vocItems, vocCall, vocabulary>>

storageVars == <<ratingsStore, itemsStore, userIdStore, clock, upsertArgs,
                 upsertReturned>>

supabaseVars == <<supabaseConfigured, supabaseAvailable, disabledKey, reads, lastOp>>

offEngine == <<cosineVars, vocabularyVars, storageVars, supabaseVars>>

vars == <<engineVars, offEngine>>

-----------------------------------------------------------------------------
(* Bounds of the model *)

\* longest catalog
MaxItems == 3
\* largest count a caller asks for
MaxCount == 2
\* longest vector cosineSimilarity is applied to on its own
MaxLen == 2

\* the largest count of the calls without a filter
MaxLong == 4

\* how many times ratingsApi.upsert is called
MaxUpserts == 3

\* how often a read may call itself again before the model stops following it
MaxRetries == 3

-----------------------------------------------------------------------------
(* Representation *)

NoVal == -1
NoStr == ""
NoPrefs == [userId |-> NoStr, favoriteGenres |-> <<>>, favoriteMoods |-> <<>>,
            ratings |-> <<>>, isNull |-> TRUE]

\* units of a feature-vector slot and of a score
FP == 10
SCALE == 1000
\* units of a magnitude (the square roots taken in cosineSimilarity)
ROOT == 32
\* Infinity, -Infinity and NaN: what a division by zero gives
NotFinite == 2000000000

\* JS truthiness of an optional number: undefined and 0 are falsy
Truthy(x) == x # NoVal /\ x # 0

\* Array.prototype.includes
Includes(seq, x) == \E i \in 1..Len(seq) : seq[i] = x

\* Array.prototype.filter
Filter(seq, P(_)) == SelectSeq(seq, P)

\* Array.prototype.map
Map(seq, F(_)) == [i \in 1..Len(seq) |-> F(seq[i])]

\* Array.prototype.slice(0, n), n >= 0
Slice(seq, n) == SubSeq(seq, 1, IF n < Len(seq) THEN n ELSE Len(seq))

\* Array.prototype.find: the first element satisfying P, as a sequence of
\* length 0 (undefined) or 1
Find(seq, P(_)) == Slice(SelectSeq(seq, P), 1)

\* Math.ceil(n / 2) for an integer n >= 0
CeilHalf(n) == (n + 1) \div 2

\* Array.prototype.sort((a, b) => Key(b) - Key(a)): descending by Key, stable
SortDesc(seq, Key(_)) ==
  LET n == Len(seq)
      pos(i) == 1 + Cardinality({j \in 1..n :
                     \/ Key(seq[j]) > Key(seq[i])
                     \/ (Key(seq[j]) = Key(seq[i]) /\ j < i)})
  IN  [p \in 1..n |-> seq[CHOOSE i \in 1..n : pos(i) = p]]

\* [...new Set(seq)]: the first occurrence of every value, in order
RECURSIVE Dedupe(_)
Dedupe(seq) ==
  IF seq = <<>> THEN <<>>
  ELSE LET front == Dedupe(SubSeq(seq, 1, Len(seq) - 1))
           last == seq[Len(seq)]
       IN  IF Includes(front, last) THEN front ELSE Append(front, last)

\* the lexicographic rank String.prototype.localeCompare-free sort() gives
\* the genre, mood and tag names of the model
Rank(s) ==
  CASE s = "Action" -> 1
    [] s = "Comedy" -> 2
    [] s = "Drama" -> 3
    [] s = "classic" -> 4
    [] s = "dark" -> 5
    [] s = "tense" -> 6
    [] s = "uplifting" -> 7
    [] OTHER -> 8

\* Array.from(set).sort(): ascending, duplicate-free
SortedSet(seq) ==
  LET d == Dedupe(seq)
  IN  SortDesc(d, LAMBDA s : 0 - Rank(s))

\* flatten a sequence of sequences
RECURSIVE Concat(_)
Concat(seqs) ==
  IF seqs = <<>> THEN <<>> ELSE Head(seqs) \o Concat(Tail(seqs))

\* sum of a sequence of integers
RECURSIVE Sum(_)
Sum(seq) == IF seq = <<>> THEN 0 ELSE Head(seq) + Sum(Tail(seq))

\* floor of the square root, by bisection on lo..hi
RECURSIVE SqrtIn(_, _, _)
SqrtIn(x, lo, hi) ==
  IF lo >= hi THEN lo
  ELSE LET mid == (lo + hi + 1) \div 2
       IN  IF mid * mid <= x THEN SqrtIn(x, mid, hi) ELSE SqrtIn(x, lo, mid - 1)

Sqrt(x) == SqrtIn(x, 0, 46340)

\* the JS operator / : no exception, a non-finite value when the divisor is 0
Divide(a, b) == IF b = 0 THEN NotFinite ELSE a \div b

-----------------------------------------------------------------------------
(* cosineSimilarity *)

\* mutant of cosineSimilarity: neither guard is there, so a missing slot
\* multiplies to NaN and a zero magnitude divides to NaN
cosineSimilarityUnguarded(v1, v2) ==
  IF Len(v1) # Len(v2) THEN NotFinite
  ELSE LET dotProduct == Sum([i \in 1..Len(v1) |-> v1[i] * v2[i]])
           mag1 == Sqrt(Sum([i \in 1..Len(v1) |-> v1[i] * v1[i]]) * ROOT * ROOT)
           mag2 == Sqrt(Sum([i \in 1..Len(v2) |-> v2[i] * v2[i]]) * ROOT * ROOT)
       IN  Divide(dotProduct * SCALE * ROOT * ROOT, mag1 * mag2)

cosineSimilarity(vec1, vec2) ==
  IF Len(vec1) # Len(vec2) THEN 0
  ELSE LET dotProduct == Sum([i \in 1..Len(vec1) |-> vec1[i] * vec2[i]])
           mag1 == Sqrt(Sum([i \in 1..Len(vec1) |-> vec1[i] * vec1[i]])
                        * ROOT * ROOT)
           mag2 == Sqrt(Sum([i \in 1..Len(vec2) |-> vec2[i] * vec2[i]])
                        * ROOT * ROOT)
       IN  IF mag1 = 0 \/ mag2 = 0 THEN 0
           ELSE Divide(dotProduct * SCALE * ROOT * ROOT, mag1 * mag2)

-----------------------------------------------------------------------------
(* ContentBasedFilter *)

\* A reason string is modelled by its template and the values put into it:
\* `Similar genres: ${commonGenres.join(', ')}` is <<"Similar genres", commonGenres>>.
Reason(template, values) == <<template, values>>

createFeatureVector(movie, allGenres, allMoods, allTags) ==
  Map(allGenres, LAMBDA g : IF Includes(movie.genres, g) THEN FP ELSE 0)
  \o Map(allMoods, LAMBDA m : IF Includes(movie.moods, m) THEN FP ELSE 0)
  \o Map(allTags, LAMBDA t : IF Includes(movie.tags, t) THEN FP ELSE 0)
  \o << IF Truthy(movie.year) THEN ((movie.year - 1900) * FP) \div 130
        ELSE FP \div 2 >>
  \o << IF Truthy(movie.averageRating) THEN (movie.averageRating * FP) \div 50
        ELSE FP \div 2 >>

extractFeatures(items) ==
  [genres |-> SortedSet(Concat(Map(items, LAMBDA m : m.genres))),
   moods  |-> SortedSet(Concat(Map(items, LAMBDA m : m.moods))),
   tags   |-> SortedSet(Concat(Map(items, LAMBDA m : m.tags)))]

\* Set.prototype.add over a sequence of values: insertion order, first
\* occurrence kept
RECURSIVE AddAll(_, _)
AddAll(set, values) ==
  IF values = <<>> THEN set
  ELSE AddAll(IF Includes(set, Head(values)) THEN set ELSE Append(set, Head(values)),
              Tail(values))

\* items.forEach(item => item[field].forEach(v => set.add(v)))
RECURSIVE Collect(_, _, _)
Collect(set, items, field) ==
  IF items = <<>> THEN set
  ELSE Collect(AddAll(set, Head(items)[field]), Tail(items), field)

\* Array.prototype.sort() without a comparator: ascending by code units
Sort(seq) == SortDesc(seq, LAMBDA s : 0 - Rank(s))

\* getAllGenres without its sort(): the Set's insertion order
getAllGenresUnsorted(items) == Collect(<<>>, items, "genres")

getAllGenres(items) == Sort(Collect(<<>>, items, "genres"))

getAllMoods(items) == Sort(Collect(<<>>, items, "moods"))

getAllTags(items) == Sort(Collect(<<>>, items, "tags"))

\* the reasons getSimilarItems gives for one item
SimilarReasons(item, targetItem) ==
  LET commonGenres == Filter(item.genres, LAMBDA g : Includes(targetItem.genres, g))
      commonMoods == Filter(item.moods, LAMBDA m : Includes(targetItem.moods, m))
  IN  (IF Len(commonGenres) > 0
         THEN <<Reason("Similar genres", commonGenres)>> ELSE <<>>)
      \o (IF Len(commonMoods) > 0
         THEN <<Reason("Similar mood", commonMoods)>> ELSE <<>>)
      \o (IF item.director # NoStr /\ targetItem.director # NoStr
             /\ item.director = targetItem.director
         THEN <<Reason("Same director", <<item.director>>)>> ELSE <<>>)
      \o (IF Truthy(item.year) /\ Truthy(targetItem.year)
             /\ item.year - targetItem.year <= 5
             /\ targetItem.year - item.year <= 5
         THEN <<Reason("Similar era", <<item.year>>)>> ELSE <<>>)

\* mutant of SimilarCandidates: the target is not taken out
SimilarCandidatesAll(targetItem, items) == items

\* the items getSimilarItems scores: every candidate but the target
SimilarCandidates(targetItem, items) ==
  Filter(items, LAMBDA item : item.id # targetItem.id)

getSimilarItems(targetItem, items, n) ==
  LET features == extractFeatures(items)
      targetVector == createFeatureVector(targetItem, features.genres,
                                          features.moods, features.tags)
      similarities ==
        Map(SimilarCandidates(targetItem, items),
            LAMBDA item :
              [item |-> item,
               score |-> cosineSimilarity(targetVector,
                           createFeatureVector(item, features.genres,
                                               features.moods, features.tags)),
               reasons |-> SimilarReasons(item, targetItem)])
  IN  Slice(SortDesc(similarities, LAMBDA r : r.score), n)

\* the ideal vector getRecommendationsByPreferences compares every item with
IdealVector(prefs, features) ==
  Map(features.genres,
      LAMBDA g : IF Includes(prefs.favoriteGenres, g) THEN 2 * FP ELSE 0)
  \o Map(features.moods,
      LAMBDA m : IF Includes(prefs.favoriteMoods, m) THEN 2 * FP ELSE 0)
  \o Map(features.tags, LAMBDA t : FP \div 2)
  \o << (8 * FP) \div 10 >>
  \o << FP >>

\* the reasons getRecommendationsByPreferences gives for one item
PreferenceReasons(item, prefs) ==
  LET matchedGenres == Filter(item.genres, LAMBDA g : Includes(prefs.favoriteGenres, g))
      matchedMoods == Filter(item.moods, LAMBDA m : Includes(prefs.favoriteMoods, m))
  IN  (IF Len(matchedGenres) > 0
         THEN <<Reason("Matches your favorite genres", matchedGenres)>> ELSE <<>>)
      \o (IF Len(matchedMoods) > 0
         THEN <<Reason("Matches your preferred mood", matchedMoods)>> ELSE <<>>)
      \o (IF Truthy(item.averageRating) /\ item.averageRating >= 45
         THEN <<Reason("Highly rated", <<item.averageRating>>)>> ELSE <<>>)

getRecommendationsByPreferences(prefs, items, n) ==
  LET features == extractFeatures(items)
      idealVector == IdealVector(prefs, features)
      recommendations ==
        Map(items,
            LAMBDA item :
              [item |-> item,
               score |-> cosineSimilarity(idealVector,
                           createFeatureVector(item, features.genres,
                                               features.moods, features.tags)),
               reasons |-> PreferenceReasons(item, prefs)])
  IN  Slice(SortDesc(recommendations, LAMBDA r : r.score), n)

-----------------------------------------------------------------------------
(* CollaborativeFilter *)

\* new Map(ratings.map(r => [r.itemId, r.rating])).get(itemId): the LAST
\* rating of the item wins
MapGet(ratings, itemId) ==
  LET hits == Filter(ratings, LAMBDA r : r.itemId = itemId)
  IN  hits[Len(hits)].rating

calculateUserSimilarity(user1Ratings, user2Ratings) ==
  LET commonItems ==
        Filter(user1Ratings,
               LAMBDA r : \E i \in 1..Len(user2Ratings) :
                            user2Ratings[i].itemId = r.itemId)
  IN  IF Len(commonItems) = 0 THEN 0
      ELSE cosineSimilarity(
             Map(commonItems, LAMBDA r : MapGet(user1Ratings, r.itemId)),
             Map(commonItems, LAMBDA r : MapGet(user2Ratings, r.itemId)))

\* the keys of userRatingsMap, in insertion order
UserIds(ratings) == Dedupe(Map(ratings, LAMBDA r : r.userId))

\* userRatingsMap.get(userId)
RatingsOf(ratings, userId) == Filter(ratings, LAMBDA r : r.userId = userId)

\* how many neighbours getCollaborativeRecommendations listens to
TopUsers == 10

\* mutant of SimilarUsers: only the most similar user is listened to
SimilarUsersTopOne(currentUserRatings, ratings) ==
  LET currentUserId == currentUserRatings[1].userId
      others == Filter(UserIds(ratings), LAMBDA u : u # currentUserId)
      scored == Map(others,
                    LAMBDA u : [userId |-> u,
                                similarity |-> calculateUserSimilarity(
                                   currentUserRatings, RatingsOf(ratings, u))])
      similarUsers == Filter(scored, LAMBDA s : s.similarity > 0)
  IN  Slice(SortDesc(similarUsers, LAMBDA s : s.similarity), 1)

\* mutant of SimilarUsers: every user of positive similarity is listened to
SimilarUsersAll(currentUserRatings, ratings) ==
  LET currentUserId == currentUserRatings[1].userId
      others == Filter(UserIds(ratings), LAMBDA u : u # currentUserId)
      scored == Map(others,
                    LAMBDA u : [userId |-> u,
                                similarity |-> calculateUserSimilarity(
                                   currentUserRatings, RatingsOf(ratings, u))])
      similarUsers == Filter(scored, LAMBDA s : s.similarity > 0)
  IN  SortDesc(similarUsers, LAMBDA s : s.similarity)

\* similarUsers, sorted, cut to the top ten
SimilarUsers(currentUserRatings, ratings) ==
  LET currentUserId == currentUserRatings[1].userId
      others == Filter(UserIds(ratings), LAMBDA u : u # currentUserId)
      scored == Map(others,
                    LAMBDA u : [userId |-> u,
                                similarity |-> calculateUserSimilarity(
                                   currentUserRatings, RatingsOf(ratings, u))])
      similarUsers == Filter(scored, LAMBDA s : s.similarity > 0)
  IN  Slice(SortDesc(similarUsers, LAMBDA s : s.similarity), TopUsers)

\* mutant of Contributions: items the current user has rated contribute too
ContributionsOfRatedToo(currentUserRatings, ratings) ==
  Concat(Map(SimilarUsers(currentUserRatings, ratings),
    LAMBDA s :
      Map(Filter(RatingsOf(ratings, s.userId), LAMBDA r : r.rating >= 4),
          LAMBDA r : [itemId |-> r.itemId,
                      value |-> r.rating * s.similarity])))

\* the (rating, similarity) contributions, in the order the two nested
\* forEach loops make them
Contributions(currentUserRatings, ratings) ==
  LET currentUserItemIds == Map(currentUserRatings, LAMBDA r : r.itemId)
  IN  Concat(Map(SimilarUsers(currentUserRatings, ratings),
        LAMBDA s :
          Map(Filter(RatingsOf(ratings, s.userId),
                     LAMBDA r : ~Includes(currentUserItemIds, r.itemId)
                                /\ r.rating >= 4),
              LAMBDA r : [itemId |-> r.itemId,
                          value |-> r.rating * s.similarity])))

\* mutant of ContributionCount: the first contribution is not counted
ContributionCountLate(mine) == Len(mine) - 1

\* rec.count after the contributions to one item: one per contribution
ContributionCount(mine) == Len(mine)

\* mutant of CollaborativeRanking: the contributions are not gathered by item;
\* each becomes an entry
CollaborativeRankingPerRating(currentUserRatings, ratings, items, n) ==
    LET contributions == Contributions(currentUserRatings, ratings)
        results ==
          Concat(Map(contributions,
            LAMBDA c :
              LET found == Find(items, LAMBDA i : i.id = c.itemId)
              IN  IF found = <<>> THEN <<>>
                  ELSE << [item |-> found[1],
                           score |-> c.value,
                           reasons |-> << Reason("Recommended by similar users",
                                                 <<>>) >>] >>))
    IN  Slice(SortDesc(results, LAMBDA r : r.score), n)

\* mutant of CollaborativeRanking: the reasons pushed for an item are returned
\* as pushed, one per contribution
CollaborativeRankingKeepRepeats(currentUserRatings, ratings, items, n) ==
    LET contributions == Contributions(currentUserRatings, ratings)
        itemIds == Dedupe(Map(contributions, LAMBDA c : c.itemId))
        data(itemId) ==
          LET mine == Filter(contributions, LAMBDA c : c.itemId = itemId)
          IN  [score |-> Sum(Map(mine, LAMBDA c : c.value)),
               count |-> ContributionCount(mine),
               reasons |-> Map(mine,
                  LAMBDA c : Reason("Recommended by similar users", <<>>))]
        results ==
          Concat(Map(itemIds,
            LAMBDA itemId :
              LET found == Find(items, LAMBDA i : i.id = itemId)
              IN  IF found = <<>> THEN <<>>
                  ELSE << [item |-> found[1],
                           score |-> Divide(data(itemId).score, data(itemId).count),
                           reasons |-> data(itemId).reasons] >>))
    IN  Slice(SortDesc(results, LAMBDA r : r.score), n)

\* the body of getCollaborativeRecommendations past its guard: the ranking
\* for a user with at least one rating
CollaborativeRanking(currentUserRatings, ratings, items, n) ==
    LET contributions == Contributions(currentUserRatings, ratings)
        itemIds == Dedupe(Map(contributions, LAMBDA c : c.itemId))
        data(itemId) ==
          LET mine == Filter(contributions, LAMBDA c : c.itemId = itemId)
          IN  [score |-> Sum(Map(mine, LAMBDA c : c.value)),
               count |-> ContributionCount(mine),
               reasons |-> Map(mine,
                  LAMBDA c : Reason("Recommended by similar users", <<>>))]
        results ==
          Concat(Map(itemIds,
            LAMBDA itemId :
              LET found == Find(items, LAMBDA i : i.id = itemId)
              IN  IF found = <<>> THEN <<>>
                  ELSE << [item |-> found[1],
                           score |-> Divide(data(itemId).score, data(itemId).count),
                           reasons |-> Dedupe(data(itemId).reasons)] >>))
    IN  Slice(SortDesc(results, LAMBDA r : r.score), n)

\* what `currentUserRatings[0].userId` gives when the list is empty: the read
\* of a property of undefined throws
TypeError == <<"TypeError">>

\* mutant of getCollaborativeRecommendations: the guard is missing
getCollaborativeRecommendationsUnguarded(currentUserRatings, ratings, items, n) ==
  IF Len(currentUserRatings) = 0 THEN TypeError
  ELSE CollaborativeRanking(currentUserRatings, ratings, items, n)

getCollaborativeRecommendations(currentUserRatings, ratings, items, n) ==
  IF Len(currentUserRatings) = 0 THEN <<>>
  ELSE CollaborativeRanking(currentUserRatings, ratings, items, n)

-----------------------------------------------------------------------------
(* HybridRecommendationEngine.getRecommendations *)

\* an undefined filter and the filter {} behave alike: no `if` of the filter
\* block fires
NoFilter ==
  [genres |-> <<>>, moods |-> <<>>, tags |-> <<>>, minRating |-> NoVal,
   yearRange |-> [present |-> FALSE, min |-> NoVal, max |-> NoVal],
   similarToItemId |-> NoStr]

\* item.genres.some(g => wanted.includes(g))
SomeIncluded(have, wanted) == \E i \in 1..Len(have) : Includes(wanted, have[i])

\* mutant of ByGenres: every genre of the item must be listed
ByGenresEvery(items, f) ==
  IF Len(f.genres) > 0
    THEN Filter(items, LAMBDA item : \A i \in 1..Len(item.genres) :
                                       Includes(f.genres, item.genres[i]))
    ELSE items

ByGenres(items, f) ==
  IF Len(f.genres) > 0
    THEN Filter(items, LAMBDA item : SomeIncluded(item.genres, f.genres))
    ELSE items

ByMoods(items, f) ==
  IF Len(f.moods) > 0
    THEN Filter(items, LAMBDA item : SomeIncluded(item.moods, f.moods))
    ELSE items

ByTags(items, f) ==
  IF Len(f.tags) > 0
    THEN Filter(items, LAMBDA item : SomeIncluded(item.tags, f.tags))
    ELSE items

\* mutant of ByMinRating: an item without a rating passes
ByMinRatingKeepUnrated(items, f) ==
  IF Truthy(f.minRating)
    THEN Filter(items, LAMBDA item : ~Truthy(item.averageRating)
                                     \/ item.averageRating >= f.minRating)
    ELSE items

ByMinRating(items, f) ==
  IF Truthy(f.minRating)
    THEN Filter(items, LAMBDA item : Truthy(item.averageRating)
                                     /\ item.averageRating >= f.minRating)
    ELSE items

ByYearRange(items, f) ==
  IF f.yearRange.present
    THEN Filter(items,
           LAMBDA item :
             /\ Truthy(item.year)
             /\ ~(Truthy(f.yearRange.min) /\ item.year < f.yearRange.min)
             /\ ~(Truthy(f.yearRange.max) /\ item.year > f.yearRange.max))
    ELSE items

\* mutant of ApplyFilters: the moods narrowing is left out
ApplyFiltersNoMoods(items, f) ==
  ByYearRange(ByMinRating(ByTags(ByGenres(items, f), f), f), f)

\* the filter block: five narrowings of [...allItems], in the code's order
ApplyFilters(items, f) ==
  ByYearRange(ByMinRating(ByTags(ByMoods(ByGenres(items, f), f), f), f), f)

\* mutant of SimilarTarget: the id is never looked up
SimilarTargetNever(items, f) == <<>>

\* allItems.find(i => i.id === filter.similarToItemId), when the id is set
SimilarTarget(items, f) ==
  IF f.similarToItemId # NoStr
    THEN Find(items, LAMBDA i : i.id = f.similarToItemId)
    ELSE <<>>

\* step 1: collaborative recommendations, if the user has ratings
CollaborativePart(filtered, ratings, prefs, n) ==
  IF ~prefs.isNull /\ Len(prefs.ratings) > 0
    THEN getCollaborativeRecommendations(prefs.ratings, ratings, filtered,
                                         CeilHalf(n))
    ELSE <<>>

\* step 2: content-based recommendations, if the user has favourites
ContentPart(filtered, prefs, n) ==
  IF ~prefs.isNull
     /\ (Len(prefs.favoriteGenres) > 0 \/ Len(prefs.favoriteMoods) > 0)
    THEN getRecommendationsByPreferences(prefs, filtered, n)
    ELSE <<>>

\* mutant of RatingOrZero: a missing rating counts as 3.5, the score it is
\* shown with
RatingOrDefault(item) == IF Truthy(item.averageRating) THEN item.averageRating ELSE 35

\* item.averageRating || 0
RatingOrZero(item) == IF Truthy(item.averageRating) THEN item.averageRating ELSE 0

\* mutant of PopularEntry: the score is the number the fill-ins are selected by
PopularEntryAsSelected(item) ==
  [item |-> item,
   score |-> RatingOrZero(item) * (SCALE \div 10),
   reasons |-> << Reason("Popular choice", <<>>),
                  IF item.averageRating = NoVal
                    THEN Reason("Rating: N/A", <<>>)
                    ELSE Reason("Rating", <<item.averageRating>>) >>]

\* one popular fill-in
PopularEntry(item) ==
  [item |-> item,
   score |-> IF Truthy(item.averageRating)
               THEN item.averageRating * (SCALE \div 10)
               ELSE (35 * SCALE) \div 10,
   reasons |-> << Reason("Popular choice", <<>>),
                  IF item.averageRating = NoVal
                    THEN Reason("Rating: N/A", <<>>)
                    ELSE Reason("Rating", <<item.averageRating>>) >>]

\* mutant of PopularPart: items already in the list are not left out
PopularPartAny(filtered, sofar, n) ==
  IF Len(sofar) < n
    THEN Map(Slice(SortDesc(filtered, RatingOrZero), n - Len(sofar)), PopularEntry)
    ELSE <<>>

\* step 3: popular items, if the list is still short
PopularPart(filtered, sofar, n) ==
  IF Len(sofar) < n
    THEN LET existingIds == Map(sofar, LAMBDA r : r.item.id)
             fresh == Filter(filtered, LAMBDA item : ~Includes(existingIds, item.id))
         IN  Map(Slice(SortDesc(fresh, RatingOrZero), n - Len(sofar)),
                 PopularEntry)
    ELSE <<>>

\* the working list `recommendations` as it stands before the merge
WorkingList(filtered, ratings, prefs, n) ==
  LET scored == CollaborativePart(filtered, ratings, prefs, n)
                \o ContentPart(filtered, prefs, n)
  IN  scored \o PopularPart(filtered, scored, n)

\* mutant of Combine: the sum is not halved
CombineSum(existing, rec) ==
  [item |-> existing.item,
   score |-> existing.score + rec.score,
   reasons |-> Dedupe(existing.reasons \o rec.reasons)]

\* what the merge does to an entry already in uniqueRecs
Combine(existing, rec) ==
  [item |-> existing.item,
   score |-> (existing.score + rec.score) \div 2,
   reasons |-> Dedupe(existing.reasons \o rec.reasons)]

\* mutant of MergeDuplicates: every entry is kept
MergeNothing(recs) == recs

\* uniqueRecs.values() after the forEach over the working list
RECURSIVE MergeDuplicates(_)
MergeDuplicates(recs) ==
  IF recs = <<>> THEN <<>>
  ELSE LET uniqueRecs == MergeDuplicates(SubSeq(recs, 1, Len(recs) - 1))
           rec == recs[Len(recs)]
           at == {i \in 1..Len(uniqueRecs) : uniqueRecs[i].item.id = rec.item.id}
       IN  IF at = {} THEN Append(uniqueRecs, rec)
           ELSE [i \in 1..Len(uniqueRecs) |->
                   IF i \in at THEN Combine(uniqueRecs[i], rec) ELSE uniqueRecs[i]]

\* mutant of Ranked: the list is not cut
RankedUncut(recs, n) == SortDesc(recs, LAMBDA r : r.score)

\* mutant of Ranked: the list is not sorted
RankedUnsorted(recs, n) == Slice(recs, n)

\* the final sort and cut of a list of recommendations
Ranked(recs, n) == Slice(SortDesc(recs, LAMBDA r : r.score), n)

\* mutant of getRecommendations: the similar items are ranked on the whole
\* catalog, not on the filtered items
getRecommendationsSimilarOnCatalog(items, ratings, prefs, f, n) ==
  LET filtered == ApplyFilters(items, f)
      targetItem == SimilarTarget(items, f)
  IN  IF targetItem # <<>> THEN getSimilarItems(targetItem[1], items, n)
      ELSE IF Len(filtered) = 0 THEN <<>>
      ELSE Ranked(MergeDuplicates(WorkingList(filtered, ratings, prefs, n)), n)

\* mutant of getRecommendations: when the filter lets nothing through, the
\* whole catalog stands in for the candidates
getRecommendationsFallBackToCatalog(items, ratings, prefs, f, n) ==
  LET filtered == IF ApplyFilters(items, f) = <<>> THEN items
                  ELSE ApplyFilters(items, f)
      targetItem == SimilarTarget(items, f)
  IN  IF targetItem # <<>> THEN getSimilarItems(targetItem[1], filtered, n)
      ELSE IF Len(filtered) = 0 THEN <<>>
      ELSE Ranked(MergeDuplicates(WorkingList(filtered, ratings, prefs, n)), n)

\* mutant of getRecommendations: the target is handed to getSimilarItems
\* without the test of line 337; reading the id of undefined throws
getRecommendationsTargetUntested(items, ratings, prefs, f, n) ==
  LET filtered == ApplyFilters(items, f)
      targetItem == SimilarTarget(items, f)
  IN  IF targetItem # <<>> THEN getSimilarItems(targetItem[1], filtered, n)
      ELSE IF f.similarToItemId # NoStr THEN TypeError
      ELSE IF Len(filtered) = 0 THEN <<>>
      ELSE Ranked(MergeDuplicates(WorkingList(filtered, ratings, prefs, n)), n)

getRecommendations(items, ratings, prefs, f, n) ==
  LET filtered == ApplyFilters(items, f)
      targetItem == SimilarTarget(items, f)
  IN  IF targetItem # <<>> THEN getSimilarItems(targetItem[1], filtered, n)
      ELSE IF Len(filtered) = 0 THEN <<>>
      ELSE Ranked(MergeDuplicates(WorkingList(filtered, ratings, prefs, n)), n)

-----------------------------------------------------------------------------
(* HybridRecommendationEngine.getTrending *)

\* a rating counts as recent for thirty days
RecentDays == 30

\* mutant of TrendingEntry: a rating exactly thirty days old is not recent
TrendingEntryStrict(item, itemRatings, today) ==
  LET totalCount == Len(itemRatings)
      recentCount == Len(Filter(itemRatings,
                                LAMBDA r : today - r.createdAt < RecentDays))
  IN  [item |-> item,
       score |-> recentCount * ((7 * SCALE) \div 10)
                 + totalCount * ((3 * SCALE) \div 10),
       reasons |-> <<>>]

TrendingEntry(item, itemRatings, today) ==
  LET totalCount == Len(itemRatings)
      recentCount == Len(Filter(itemRatings,
                                LAMBDA r : today - r.createdAt <= RecentDays))
  IN  [item |-> item,
       score |-> recentCount * ((7 * SCALE) \div 10)
                 + totalCount * ((3 * SCALE) \div 10),
       reasons |-> IF recentCount > 0
                     THEN << Reason("Trending now", <<>>),
                             Reason("recent ratings", <<recentCount>>),
                             Reason("total ratings", <<totalCount>>) >>
                     ELSE << Reason("Popular", <<>>),
                             Reason("total ratings", <<totalCount>>) >>]

\* mutant of getTrending: every catalog item is scored, rated or not
getTrendingEveryItem(items, ratings, n, today) ==
  Ranked(Map(items,
             LAMBDA item : TrendingEntry(item,
                             Filter(ratings, LAMBDA r : r.itemId = item.id),
                             today)),
         n)

getTrending(items, ratings, n, today) ==
  LET itemIds == Dedupe(Map(ratings, LAMBDA r : r.itemId))
      scoredItems ==
        Concat(Map(itemIds,
          LAMBDA itemId :
            LET found == Find(items, LAMBDA i : i.id = itemId)
            IN  IF found = <<>> THEN <<>>
                ELSE << TrendingEntry(found[1],
                          Filter(ratings, LAMBDA r : r.itemId = itemId),
                          today) >>))
  IN  Ranked(scoredItems, n)

-----------------------------------------------------------------------------
(* services/dataService.ts in localStorage mode.  A Date is written         *)
(* [type |-> "Date", ms |-> t]; JSON.stringify turns it into its ISO string, *)
(* [type |-> "string", ms |-> t], and JSON.parse leaves that a string.  An    *)
(* undefined comment is NoStr, which JSON.stringify leaves out.              *)

DateAt(t) == [type |-> "Date", ms |-> t]

\* Date.prototype.toJSON; a string stays what it is
ToJSON(d) == [type |-> "string", ms |-> d.ms]

\* JSON.parse(JSON.stringify(ratings))
StoredRatings(ratings) ==
  [i \in 1..Len(ratings) |-> [ratings[i] EXCEPT !.createdAt = ToJSON(@)]]

\* the fields of a stored item the rating service reads and writes
StoredItem(id, averageRating, ratingsCount) ==
  [id |-> id, averageRating |-> averageRating, ratingsCount |-> ratingsCount]

\* data/sampleMovies: a movie shipped with a rating, and one as AddMoviePage
\* stores it
SampleItems == << StoredItem("A", 45, NoVal), StoredItem("B", 0, 0) >>

\* initializeSampleData
initializeSampleData(store) ==
  IF ~store.present THEN [present |-> TRUE, value |-> SampleItems] ELSE store

\* the user id getUserId generates
GeneratedUserId == "user_1"

\* getUserId: the stored id, generated and stored when there is none
getUserId(stored) == IF stored = NoStr THEN GeneratedUserId ELSE stored

\* mutant of ExistingIndex: no stored rating is ever found
ExistingIndexNever(ratings, userId, itemId) == 0

\* ratings.findIndex(r => r.itemId === itemId && r.userId === userId), with
\* places counted from 1 and 0 for not found
ExistingIndex(ratings, userId, itemId) ==
  LET at == {i \in 1..Len(ratings) :
               ratings[i].itemId = itemId /\ ratings[i].userId = userId}
  IN  IF at = {} THEN 0 ELSE CHOOSE i \in at : \A j \in at : i <= j

\* newRating
NewRating(ratings, existingIndex, userId, itemId, rating, comment, t) ==
  [id |-> IF existingIndex > 0 THEN ratings[existingIndex].id ELSE t,
   userId |-> userId,
   itemId |-> itemId,
   rating |-> rating,
   comment |-> comment,
   createdAt |-> IF existingIndex > 0 THEN ratings[existingIndex].createdAt
                 ELSE DateAt(t)]

\* the ratings array after the replacement or the push
WithRating(ratings, existingIndex, newRating) ==
  IF existingIndex > 0 THEN [ratings EXCEPT ![existingIndex] = newRating]
  ELSE Append(ratings, newRating)

\* the items array after the update of the rated item, if there is one
WithAverage(items, ratings, itemId) ==
  LET found == {i \in 1..Len(items) : items[i].id = itemId}
      itemRatings == SelectSeq(ratings, LAMBDA r : r.itemId = itemId)
      sum == Sum([i \in 1..Len(itemRatings) |-> itemRatings[i].rating])
  IN  IF found = {} THEN items
      ELSE LET first == CHOOSE i \in found : \A j \in found : i <= j
           IN  [items EXCEPT ![first] =
                  [@ EXCEPT !.averageRating = Divide(sum * 10, Len(itemRatings)),
                            !.ratingsCount = Len(itemRatings)]]

\* isNetworkError
isNetworkError(error) ==
  \/ error.mentions \cap {"CORS", "Load failed", "NetworkError", "Failed to fetch"} # {}
  \/ error.code = "PGRST301"

\* mutant of BeginRead: a read goes to Supabase whatever the flag says
BeginReadRemote(read, available) == [read EXCEPT !.pc = "awaiting"]

\* the body of getAll and get up to its first await: the Supabase branch
\* sends the query, the localStorage branch returns what is stored
BeginRead(read, available) ==
  IF available
    THEN [read EXCEPT !.pc = "awaiting"]
    ELSE [read EXCEPT !.pc = "returned", !.served = "localStorage"]

-----------------------------------------------------------------------------
(* The inputs the engine is called with *)

Movie(id, director, year, genres, moods, tags, averageRating) ==
  [id |-> id, director |-> director, year |-> year, genres |-> genres,
   moods |-> moods, tags |-> tags, averageRating |-> averageRating]

\* four movies: well rated; rated 3.0; never rated through the database
\* (averageRating undefined); just added (AddMoviePage sets averageRating: 0)
Pool ==
  << Movie("A", "Lee", 2004, <<"Drama">>, <<"dark">>, <<"classic">>, 45),
     Movie("B", "Lee", 2001, <<"Comedy", "Drama">>, <<"dark", "tense">>, <<>>, 30),
     Movie("C", NoStr, 1991, <<"Comedy">>, <<"uplifting">>, <<"classic">>, NoVal),
     Movie("D", "Kim", NoVal, <<"Action">>, <<>>, <<>>, 0) >>

\* Array.prototype.reverse
Reverse(seq) == [i \in 1..Len(seq) |-> seq[Len(seq) + 1 - i]]

\* every catalog of at most MaxItems of the movies, oldest first (localStorage)
\* or newest first (the database query orders by created_at descending)
Catalogs ==
  LET chosen == {S \in SUBSET (1..Len(Pool)) : Cardinality(S) <= MaxItems}
      oldestFirst(S) == SelectSeq(Pool, LAMBDA m : \E i \in S : Pool[i] = m)
  IN  {oldestFirst(S) : S \in chosen} \cup {Reverse(oldestFirst(S)) : S \in chosen}

Rating(userId, itemId, rating, createdAt) ==
  [userId |-> userId, itemId |-> itemId, rating |-> rating, createdAt |-> createdAt]

\* u2 agrees with u1 on C and D, u3 disagrees; "Z" is an id of no movie
OverlapLog ==
  << Rating("u1", "C", 5, 95), Rating("u1", "D", 2, 10),
     Rating("u2", "C", 5, 100), Rating("u2", "D", 2, 20), Rating("u2", "A", 5, 99),
     Rating("u2", "B", 4, 30), Rating("u2", "Z", 5, 98),
     Rating("u3", "C", 2, 40), Rating("u3", "D", 5, 97), Rating("u3", "B", 5, 60),
     Rating("u3", "A", 3, 50) >>

\* nobody has rated a movie u1 has rated
DisjointLog ==
  << Rating("u1", "A", 4, 90), Rating("u2", "B", 5, 50), Rating("u2", "C", 4, 96) >>

\* u2 and u3 both agree with u1 on C; each likes a movie the other has not
\* rated
CrowdLog ==
  << Rating("u1", "C", 5, 80), Rating("u2", "C", 5, 85), Rating("u2", "B", 4, 90),
     Rating("u3", "C", 5, 75), Rating("u3", "A", 5, 100) >>

\* eleven users share C and D with u1.  The first in the log, n0, rates them
\* the other way round (similarity 10/26) and is the only one to like A; the
\* ten after it rate them as u1 does, and two of those like B
Agreeing == <<"n1", "n2", "n3", "n4", "n5", "n6", "n7", "n8", "n9", "n10">>

ElevenLog ==
  << Rating("u1", "C", 5, 80), Rating("u1", "D", 1, 81),
     Rating("n0", "C", 1, 60), Rating("n0", "D", 5, 61), Rating("n0", "A", 5, 62) >>
  \o Concat([k \in 1..Len(Agreeing) |->
               << Rating(Agreeing[k], "C", 5, 82 + k),
                  Rating(Agreeing[k], "D", 1, 82 + k) >>])
  \o << Rating("n1", "B", 4, 95), Rating("n2", "B", 5, 96) >>

Prefs(userId, favoriteGenres, favoriteMoods, ratings) ==
  [userId |-> userId, favoriteGenres |-> favoriteGenres,
   favoriteMoods |-> favoriteMoods, ratings |-> ratings, isNull |-> FALSE]

\* the rating log and the preferences of user u1 that go with it
Scenarios ==
  { [ratings |-> <<>>, prefs |-> NoPrefs],
    [ratings |-> OverlapLog, prefs |-> NoPrefs],
    [ratings |-> OverlapLog,
     prefs |-> Prefs("u1", <<"Comedy">>, <<"uplifting">>, RatingsOf(OverlapLog, "u1"))],
    [ratings |-> OverlapLog,
     prefs |-> Prefs("u1", <<>>, <<>>, RatingsOf(OverlapLog, "u1"))],
    [ratings |-> DisjointLog,
     prefs |-> Prefs("u1", <<"Comedy">>, <<>>, <<>>)],
    [ratings |-> DisjointLog,
     prefs |-> Prefs("u1", <<"Drama">>, <<>>, RatingsOf(DisjointLog, "u1"))],
    [ratings |-> CrowdLog,
     prefs |-> Prefs("u1", <<>>, <<>>, RatingsOf(CrowdLog, "u1"))] }

\* The filters a caller can build from RecommendationFilter.  minRating 0 is
\* the lowest position of FilterPanel's slider ("Any"); the lists are given
\* with entries or not at all
Filters ==
  { [genres |-> g, moods |-> m, tags |-> t, minRating |-> r, yearRange |-> y,
     similarToItemId |-> s] :
      g \in {<<>>, <<"Action", "Drama">>},
      m \in {<<>>, <<"dark">>},
      t \in {<<>>, <<"classic">>},
      r \in {NoVal, 0, 30},
      y \in {[present |-> FALSE, min |-> NoVal, max |-> NoVal],
             [present |-> TRUE, min |-> 2002, max |-> NoVal],
             [present |-> TRUE, min |-> 1995, max |-> 2003]},
      s \in {NoStr, "A"} }

\* Date.now() in days; every createdAt of the logs is at most 100
Clock == {100, 130}

-----------------------------------------------------------------------------
(* What the engine does to the arrays it is given.  An array method either  *)
(* returns a new array, or changes its receiver, or only reads it; a chain   *)
(* lists the methods the code applies to an argument, each to the result of  *)
(* the one before.                                                           *)

\* [...a], a.filter, a.map, a.slice, Array.from(a): a new array
Copying == {"spread", "filter", "map", "slice", "from"}

\* a.sort, a.push: the receiver itself is changed (sort returns it)
InPlace == {"sort", "push"}

\* the chain changes the array it starts from: a method that works in place
\* comes before any that copies (forEach, find, includes only read)
RECURSIVE ChangesReceiver(_)
ChangesReceiver(chain) ==
  IF chain = <<>> THEN FALSE
  ELSE IF Head(chain) \in InPlace THEN TRUE
  ELSE IF Head(chain) \in Copying THEN FALSE
  ELSE ChangesReceiver(Tail(chain))

\* getSimilarItems on its allItems: extractFeatures reads it; lines 77-114
SimilarItemsChain == <<"forEach", "filter", "map", "sort", "slice">>

\* mutant of PreferencesChain: the catalog itself is sorted
PreferencesChainInPlace == <<"forEach", "sort", "slice">>

\* getRecommendationsByPreferences on its allItems: lines 125, 151-182
PreferencesChain == <<"forEach", "map", "sort", "slice">>

\* getRecommendations on its allItems, hybrid path: the copy of line 297, the
\* narrowings of the filter block, the popular fill of lines 375-379
PopularChain == <<"spread", "filter", "filter", "sort", "slice", "map">>

\* the array the caller holds after the call: what an in-place method wrote
\* into it if the chain reached it, the array as it was otherwise
ArrayAfter(array, chain, written) ==
  IF ChangesReceiver(chain) THEN written ELSE array

\* the items of a ranking, in its order
ItemsOf(recs) == [i \in 1..Len(recs) |-> recs[i].item]

-----------------------------------------------------------------------------
(* The state machine: the data the page holds, and the calls on the engine. *)
(* The engine is synchronous: a call is made when no list is shown.        *)

\* cosineSimilarity has not been applied on its own
CosineIdle == cosVec1 = <<>> /\ cosVec2 = <<>> /\ cosine = 0

VocabularyIdle == vocItems = <<>> /\ vocCall = "none" /\ vocabulary = <<>>

NoArgs == [itemId |-> NoStr, rating |-> 0, comment |-> NoStr]

\* a browser that has not run the application before
StorageIdle ==
  /\ ratingsStore = <<>>
  /\ itemsStore = [present |-> FALSE, value |-> <<>>]
  /\ userIdStore = NoStr
  /\ clock = 0
  /\ upsertArgs = NoArgs
  /\ upsertReturned = <<>>

\* the reads of the data service: itemsApi.getAll, ratingsApi.getAll and
\* preferencesApi.get
Apis == {"items", "ratings", "preferences"}

\* an error of the Supabase client: the phrases isNetworkError looks for that
\* its message includes, and its code
Failure(mentions, code) == [mentions |-> mentions, code |-> code]

NoError == Failure({}, NoStr)

\* a read of the data service: where it stands ("idle", "awaiting" the
\* answer of Supabase, "awaitingRatings" - preferencesApi.get awaiting the
\* ratingsApi.getAll it called -, "returned", "thrown"), how often it called
\* itself again, the branch its value came from, and the error Supabase
\* answered with
NoRead == [pc |-> "idle", retries |-> 0, served |-> "none", error |-> NoError]

\* no Supabase URL or key in the environment
SupabaseIdle ==
  /\ supabaseConfigured = FALSE
  /\ supabaseAvailable = FALSE
  /\ disabledKey = FALSE
  /\ reads = [a \in Apis |-> NoRead]
  /\ lastOp = "none"

Init ==
  /\ allItems \in Catalogs
  /\ \E s \in Scenarios : allRatings = s.ratings /\ userPrefs = s.prefs
  /\ filter = NoFilter
  /\ count = 0
  /\ now = 0
  /\ call = "none"
  /\ target = <<>>
  /\ filteredItems = <<>>
  /\ working = <<>>
  /\ result = <<>>
  /\ CosineIdle
  /\ VocabularyIdle
  /\ StorageIdle
  /\ SupabaseIdle

\* one call of getRecommendations with filter f and count n
GetRecommendations(f, n) ==
  LET filtered == ApplyFilters(allItems, f)
      found == SimilarTarget(allItems, f)
  IN  /\ call = "none"
      /\ call' = "getRecommendations"
      /\ filter' = f
      /\ count' = n
      /\ target' = found
      /\ filteredItems' = filtered
      /\ working' = IF found # <<>> \/ Len(filtered) = 0 THEN <<>>
                    ELSE WorkingList(filtered, allRatings, userPrefs, n)
      /\ result' = getRecommendations(allItems, allRatings, userPrefs, f, n)
      /\ now' = 0
      /\ allItems' =
           IF found # <<>>
             THEN ArrayAfter(allItems, <<"spread", "filter">> \o SimilarItemsChain,
                             ItemsOf(getSimilarItems(found[1], allItems,
                                                     Len(allItems))))
             ELSE ArrayAfter(allItems, PopularChain,
                             SortDesc(allItems, RatingOrZero))
      \* the rating log is read with forEach, userPrefs.ratings with map and
      \* filter, the lists of the filter with includes
      /\ UNCHANGED <<allRatings, userPrefs>>
      /\ UNCHANGED offEngine

CallGetRecommendations ==
  \E f \in Filters, n \in 0..MaxCount : GetRecommendations(f, n)

\* calls without a filter and with counts past MaxCount, which ask the
\* collaborative scorer for more than one entry
CallGetRecommendationsLong ==
  \E n \in 0..MaxLong : GetRecommendations(NoFilter, n)

CallGetTrending ==
  \E n \in 0..MaxCount, today \in Clock :
    /\ call = "none"
    /\ call' = "getTrending"
    /\ count' = n
    /\ now' = today
    /\ result' = getTrending(allItems, allRatings, n, today)
    /\ filter' = NoFilter
    /\ target' = <<>>
    /\ filteredItems' = <<>>
    /\ working' = <<>>
    \* the log is read with forEach, the catalog with find; the sort of line
    \* 448 works on the array map and filter made
    /\ UNCHANGED <<allItems, allRatings, userPrefs>>
    /\ UNCHANGED offEngine

CallGetSimilarItems ==
  \E t \in 1..Len(Pool), n \in 0..MaxCount :
    /\ call = "none"
    /\ call' = "getSimilarItems"
    /\ count' = n
    /\ target' = <<Pool[t]>>
    /\ result' = getSimilarItems(Pool[t], allItems, n)
    /\ filter' = NoFilter
    /\ filteredItems' = <<>>
    /\ working' = <<>>
    /\ now' = 0
    /\ allItems' = ArrayAfter(allItems, SimilarItemsChain,
                              ItemsOf(getSimilarItems(Pool[t], allItems,
                                                      Len(allItems))))
    /\ UNCHANGED <<allRatings, userPrefs>>
    /\ UNCHANGED offEngine

CallGetRecommendationsByPreferences ==
  \E n \in 0..MaxCount :
    /\ call = "none"
    /\ ~userPrefs.isNull
    /\ call' = "getRecommendationsByPreferences"
    /\ count' = n
    /\ result' = getRecommendationsByPreferences(userPrefs, allItems, n)
    /\ filter' = NoFilter
    /\ target' = <<>>
    /\ filteredItems' = <<>>
    /\ working' = <<>>
    /\ now' = 0
    /\ allItems' = ArrayAfter(allItems, PreferencesChain,
                              ItemsOf(getRecommendationsByPreferences(
                                        userPrefs, allItems, Len(allItems))))
    \* favoriteGenres and favoriteMoods are read with includes
    /\ UNCHANGED <<allRatings, userPrefs>>
    /\ UNCHANGED offEngine

CallGetCollaborativeRecommendations ==
  \E n \in 0..MaxCount :
    /\ call = "none"
    /\ call' = "getCollaborativeRecommendations"
    /\ count' = n
    /\ result' = getCollaborativeRecommendations(userPrefs.ratings, allRatings,
                                                 allItems, n)
    /\ filter' = NoFilter
    /\ target' = <<>>
    /\ filteredItems' = <<>>
    /\ working' = <<>>
    /\ now' = 0
    \* the log is read with forEach, the user's ratings with map and filter,
    \* the catalog with find; the pushes of lines 223 and 272 and the sorts of
    \* lines 239 and 280 work on arrays made at lines 221, 228 and 267
    /\ UNCHANGED <<allItems, allRatings, userPrefs>>
    /\ UNCHANGED offEngine

\* the page drops the list it shows before it asks for the next one
Discard ==
  /\ call # "none"
  /\ call' = "none"
  /\ filter' = NoFilter
  /\ count' = 0
  /\ now' = 0
  /\ target' = <<>>
  /\ filteredItems' = <<>>
  /\ working' = <<>>
  /\ result' = <<>>
  /\ UNCHANGED <<allItems, allRatings, userPrefs>>
  /\ UNCHANGED offEngine

Next ==
  \/ CallGetRecommendations
  \/ CallGetTrending
  \/ CallGetSimilarItems
  \/ CallGetRecommendationsByPreferences
  \/ CallGetCollaborativeRecommendations
  \/ Discard

Spec == Init /\ [][Next]_vars

\* the filter block alone: what it lets through depends on the catalog and
\* the filter only, so the rating log is empty and there are no preferences
InitFilters == Init /\ allRatings = <<>> /\ userPrefs = NoPrefs

NextFilters == CallGetRecommendations \/ Discard

SpecFilters == InitFilters /\ [][NextFilters]_vars

\* cosineSimilarity alone, on vectors of every length up to MaxLen whose slots
\* are 0, 0.5 or 1
Slots == {0, FP \div 2, FP}

Vectors == UNION {[1..n -> Slots] : n \in 0..MaxLen}

CallCosineSimilarity ==
  \E v1 \in Vectors, v2 \in Vectors :
    /\ cosVec1' = v1
    /\ cosVec2' = v2
    /\ cosine' = cosineSimilarity(v1, v2)
    /\ UNCHANGED <<engineVars, vocabularyVars, storageVars, supabaseVars>>

InitCosine == Init /\ allItems = <<>> /\ allRatings = <<>> /\ userPrefs = NoPrefs

NextCosine == CallCosineSimilarity

SpecCosine == InitCosine /\ [][NextCosine]_vars

\* the working list of the calls without a filter
NextLong == CallGetRecommendationsLong \/ Discard

SpecLong == Init /\ [][NextLong]_vars

\* the engine at rest, with nothing to work on
EngineIdle ==
  /\ allItems = <<>>
  /\ allRatings = <<>>
  /\ userPrefs = NoPrefs
  /\ filter = NoFilter
  /\ count = 0
  /\ now = 0
  /\ call = "none"
  /\ target = <<>>
  /\ filteredItems = <<>>
  /\ working = <<>>
  /\ result = <<>>

\* what RatingStars and RateMoviesPage hand to ratingsApi.upsert: a stored
\* movie or one that is not stored, some stars, a comment or none
UpsertItems == {"A", "B", "Z"}

Stars == {2, 5}

Comments == {NoStr, "good"}

\* ratingsApi.upsert, the localStorage branch.  Every await of the branch is
\* on a promise already settled, so the call runs to its end before the
\* browser handles the next event
CallUpsert ==
  \E itemId \in UpsertItems, rating \in Stars, comment \in Comments :
    LET userId == getUserId(userIdStore)
        ratings == ratingsStore
        existingIndex == ExistingIndex(ratings, userId, itemId)
        newRating == NewRating(ratings, existingIndex, userId, itemId, rating,
                               comment, clock + 1)
        written == WithRating(ratings, existingIndex, newRating)
        items == initializeSampleData(itemsStore)
    IN  /\ ~supabaseAvailable
        /\ clock < MaxUpserts
        /\ clock' = clock + 1
        /\ userIdStore' = userId
        /\ ratingsStore' = StoredRatings(written)
        /\ itemsStore' = [present |-> TRUE,
                          value |-> WithAverage(items.value, written, itemId)]
        /\ upsertArgs' = [itemId |-> itemId, rating |-> rating, comment |-> comment]
        /\ upsertReturned' = <<newRating>>
        /\ UNCHANGED <<engineVars, cosineVars, vocabularyVars, supabaseVars>>

InitStorage ==
  /\ EngineIdle
  /\ CosineIdle
  /\ VocabularyIdle
  /\ StorageIdle
  /\ SupabaseIdle

NextStorage == CallUpsert

SpecStorage == InitStorage /\ [][NextStorage]_vars

\* what Supabase answers a read with: a failed fetch, a blocked cross-origin
\* request, an expired token, a refused permission
Failures ==
  { Failure({"Failed to fetch"}, NoStr), Failure({"CORS", "Failed to fetch"}, NoStr),
    Failure({}, "PGRST301"), Failure({}, "42501") }

\* itemsApi.getAll, ratingsApi.getAll or preferencesApi.get is called
CallRead ==
  \E a \in Apis :
    /\ reads[a].pc = "idle"
    /\ reads' = [reads EXCEPT ![a] = BeginRead(NoRead, supabaseAvailable)]
    /\ lastOp' = "call"
    /\ UNCHANGED <<supabaseConfigured, supabaseAvailable, disabledKey>>
    /\ UNCHANGED <<engineVars, cosineVars, vocabularyVars, storageVars>>

\* Supabase answers with data.  preferencesApi.get then calls
\* ratingsApi.getAll when it was given no ratings and there is a row
Answer ==
  \E a \in Apis, fetchRatings \in BOOLEAN :
    /\ reads[a].pc = "awaiting"
    /\ fetchRatings => a = "preferences"
    /\ reads' = [reads EXCEPT ![a] =
                   IF fetchRatings /\ supabaseAvailable
                     THEN [@ EXCEPT !.pc = "awaitingRatings"]
                     ELSE [@ EXCEPT !.pc = "returned", !.served = "supabase"]]
    /\ lastOp' = "answer"
    /\ UNCHANGED <<supabaseConfigured, supabaseAvailable, disabledKey>>
    /\ UNCHANGED <<engineVars, cosineVars, vocabularyVars, storageVars>>

\* Supabase answers the ratingsApi.getAll of preferencesApi.get with data
AnswerRatings ==
  /\ reads["preferences"].pc = "awaitingRatings"
  /\ reads' = [reads EXCEPT !["preferences"] =
                 [@ EXCEPT !.pc = "returned", !.served = "supabase"]]
  /\ lastOp' = "answer"
  /\ UNCHANGED <<supabaseConfigured, supabaseAvailable, disabledKey>>
  /\ UNCHANGED <<engineVars, cosineVars, vocabularyVars, storageVars>>

\* Supabase answers with an error, or the client throws one: a network error
\* disables Supabase and the read calls itself again, any other is rethrown.
\* An error of the ratingsApi.getAll inside preferencesApi.get is handled there
\* the same way; what it rethrows passes through the catch of
\* preferencesApi.get
Fail ==
  \E a \in Apis, error \in Failures :
    /\ reads[a].pc \in {"awaiting", "awaitingRatings"}
    /\ reads[a].retries < MaxRetries
    /\ IF isNetworkError(error)
         THEN /\ supabaseAvailable' = FALSE
              /\ disabledKey' = TRUE
              /\ reads' = [reads EXCEPT ![a] =
                             BeginRead([@ EXCEPT !.retries = @ + 1, !.error = error],
                                       supabaseAvailable')]
         ELSE /\ reads' = [reads EXCEPT ![a] = [@ EXCEPT !.pc = "thrown",
                                                          !.error = error]]
              /\ UNCHANGED <<supabaseAvailable, disabledKey>>
    /\ lastOp' = "fail"
    /\ UNCHANGED supabaseConfigured
    /\ UNCHANGED <<engineVars, cosineVars, vocabularyVars, storageVars>>

\* the page takes what the read returned or threw
Settle ==
  \E a \in Apis :
    /\ reads[a].pc \in {"returned", "thrown"}
    /\ reads' = [reads EXCEPT ![a] = NoRead]
    /\ lastOp' = "settle"
    /\ UNCHANGED <<supabaseConfigured, supabaseAvailable, disabledKey>>
    /\ UNCHANGED <<engineVars, cosineVars, vocabularyVars, storageVars>>

\* enableSupabase, from the console
EnableSupabase ==
  /\ IF supabaseConfigured
       THEN supabaseAvailable' = TRUE /\ disabledKey' = FALSE
       ELSE UNCHANGED <<supabaseAvailable, disabledKey>>
  /\ lastOp' = "enableSupabase"
  /\ UNCHANGED <<supabaseConfigured, reads>>
  /\ UNCHANGED <<engineVars, cosineVars, vocabularyVars, storageVars>>

\* the page is loaded again: the module starts over and reads the key
Reload ==
  /\ supabaseAvailable' = (supabaseConfigured /\ ~disabledKey)
  /\ reads' = [a \in Apis |-> NoRead]
  /\ lastOp' = "reload"
  /\ UNCHANGED <<supabaseConfigured, disabledKey>>
  /\ UNCHANGED <<engineVars, cosineVars, vocabularyVars, storageVars>>

InitSupabase ==
  /\ EngineIdle
  /\ CosineIdle
  /\ VocabularyIdle
  /\ StorageIdle
  /\ supabaseConfigured \in BOOLEAN
  /\ supabaseAvailable = supabaseConfigured
  /\ disabledKey = FALSE
  /\ reads = [a \in Apis |-> NoRead]
  /\ lastOp = "none"

NextSupabase ==
  \/ CallRead
  \/ Answer
  \/ AnswerRatings
  \/ Fail
  \/ Settle
  \/ EnableSupabase
  \/ Reload

SpecSupabase == InitSupabase /\ [][NextSupabase]_vars

\* the collaborative scorer alone, on the logs above and on one with more
\* than ten users of positive similarity
NeighbourScenarios ==
  {s \in Scenarios : ~s.prefs.isNull}
  \cup {[ratings |-> ElevenLog,
         prefs |-> Prefs("u1", <<>>, <<>>, RatingsOf(ElevenLog, "u1"))]}

InitNeighbours ==
  /\ allItems \in Catalogs
  /\ \E s \in NeighbourScenarios : allRatings = s.ratings /\ userPrefs = s.prefs
  /\ filter = NoFilter
  /\ count = 0
  /\ now = 0
  /\ call = "none"
  /\ target = <<>>
  /\ filteredItems = <<>>
  /\ working = <<>>
  /\ result = <<>>
  /\ CosineIdle
  /\ VocabularyIdle
  /\ StorageIdle
  /\ SupabaseIdle

NextNeighbours == CallGetCollaborativeRecommendations \/ Discard

SpecNeighbours == InitNeighbours /\ [][NextNeighbours]_vars

\* the vocabulary getters applied to every sequence of at most MaxItems of the
\* movies, in any order and with repeats
Collections == UNION {[1..n -> {Pool[i] : i \in 1..Len(Pool)}] : n \in 0..MaxItems}

CallGetAllGenres ==
  \E items \in Collections :
    /\ vocItems' = items
    /\ vocCall' = "genres"
    /\ vocabulary' = getAllGenres(items)
    /\ UNCHANGED <<engineVars, cosineVars, storageVars, supabaseVars>>

CallGetAllMoods ==
  \E items \in Collections :
    /\ vocItems' = items
    /\ vocCall' = "moods"
    /\ vocabulary' = getAllMoods(items)
    /\ UNCHANGED <<engineVars, cosineVars, storageVars, supabaseVars>>

CallGetAllTags ==
  \E items \in Collections :
    /\ vocItems' = items
    /\ vocCall' = "tags"
    /\ vocabulary' = getAllTags(items)
    /\ UNCHANGED <<engineVars, cosineVars, storageVars, supabaseVars>>

InitVocabulary == Init /\ allItems = <<>> /\ allRatings = <<>> /\ userPrefs = NoPrefs

NextVocabulary == CallGetAllGenres \/ CallGetAllMoods \/ CallGetAllTags

SpecVocabulary == InitVocabulary /\ [][NextVocabulary]_vars

-----------------------------------------------------------------------------
(* Vocabulary of the properties *)

\* the item ids of a list of recommendations, in order
Ids(recs) == Map(recs, LAMBDA r : r.item.id)

\* no value occurs twice in the sequence
NoRepeat(seq) == \A i, j \in 1..Len(seq) : i # j => seq[i] # seq[j]

\* the values of a sequence
Range(seq) == {seq[i] : i \in 1..Len(seq)}

\* the item meets the constraints the filter holds.  A list constrains when it
\* has entries; minRating compares the item's rating, a missing one counting as
\* 0 as everywhere in the engine (averageRating || 0); a yearRange needs a year
Satisfies(item, f) ==
  /\ Len(f.genres) > 0 => Range(item.genres) \cap Range(f.genres) # {}
  /\ Len(f.moods) > 0 => Range(item.moods) \cap Range(f.moods) # {}
  /\ Len(f.tags) > 0 => Range(item.tags) \cap Range(f.tags) # {}
  /\ f.minRating # NoVal =>
       (IF item.averageRating = NoVal THEN 0 ELSE item.averageRating) >= f.minRating
  /\ f.yearRange.present =>
       /\ item.year # NoVal
       /\ f.yearRange.min # NoVal => item.year >= f.yearRange.min
       /\ f.yearRange.max # NoVal => item.year <= f.yearRange.max

\* the last call ranked items similar to a target: the candidates it ranked
SimilarCall ==
  \/ call = "getSimilarItems"
  \/ call = "getRecommendations" /\ target # <<>>

Candidates == IF call = "getSimilarItems" THEN allItems ELSE filteredItems

\* the last call was a getRecommendations that took the hybrid path
HybridCall ==
  call = "getRecommendations" /\ target = <<>> /\ Len(filteredItems) > 0

\* the ranking the last getRecommendations cut to count entries
Uncut ==
  IF target # <<>>
    THEN getSimilarItems(target[1], filteredItems, Len(filteredItems))
    ELSE MergeDuplicates(working)

-----------------------------------------------------------------------------
(* C1 - C10 *)

\* C1: whatever entry point was called, with whatever count >= 0, the list it
\* returned has at most count entries.
C1_AtMostCount == call # "none" => Len(result) <= count

\* C1 witness: getRecommendations cut a longer ranking down to count entries.
C1_Witness ==
  /\ call = "getRecommendations"
  /\ count > 0
  /\ Len(result) = count
  /\ Len(Uncut) > count

C3_MergedScore ==
  HybridCall =>
    LET collaborative == CollaborativePart(filteredItems, allRatings, userPrefs, count)
        contentBased == ContentPart(filteredItems, userPrefs, count)
    IN  \A i \in 1..Len(result), j \in 1..Len(collaborative),
            k \in 1..Len(contentBased) :
          (/\ collaborative[j].item.id = result[i].item.id
           /\ contentBased[k].item.id = result[i].item.id)
          => /\ result[i].score
                  = (collaborative[j].score + contentBased[k].score) \div 2
             /\ \A r \in 1..Len(result[i].reasons) :
                  \/ Includes(collaborative[j].reasons, result[i].reasons[r])
                  \/ Includes(contentBased[k].reasons, result[i].reasons[r])
             /\ \A r \in 1..Len(collaborative[j].reasons) :
                  Includes(result[i].reasons, collaborative[j].reasons[r])
             /\ \A r \in 1..Len(contentBased[k].reasons) :
                  Includes(result[i].reasons, contentBased[k].reasons[r])

\* C3 witness: a returned item came from both scorers with different scores.
C3_Witness ==
  /\ HybridCall
  /\ \E i \in 1..Len(result), j, k \in 1..Len(working) :
       /\ j < k
       /\ working[j].item.id = result[i].item.id
       /\ working[k].item.id = result[i].item.id
       /\ working[j].score # working[k].score
       /\ working[j].reasons = <<Reason("Recommended by similar users", <<>>)>>
       /\ Len(working[k].reasons) > 0

\* C4: getRecommendations never returns two entries with the same item id.
C4_NoDuplicateIds == call = "getRecommendations" => NoRepeat(Ids(result))

\* C4 witness: the working list held an item twice and the item was returned.
C4_Witness ==
  /\ HybridCall
  /\ ~NoRepeat(Ids(working))
  /\ \E i \in 1..Len(result), j, k \in 1..Len(working) :
       j # k /\ working[j].item.id = result[i].item.id
             /\ working[k].item.id = result[i].item.id

\* C5: the list getRecommendations returned is in non-increasing order of the
\* (merged) scores, and no entry the cut left out scores higher than one that
\* was returned.
C5_OrderedByScore ==
  call = "getRecommendations" =>
    /\ \A i, j \in 1..Len(result) : i < j => result[i].score >= result[j].score
    /\ LET uncut == Uncut
           returned == Ids(result)
       IN  \A u \in 1..Len(uncut), i \in 1..Len(result) :
             ~Includes(returned, uncut[u].item.id)
               => uncut[u].score <= result[i].score

\* C5 witness: the scorers gave three different items, the cut left the
\* lowest out, and the two returned differ in score.
C5_Witness ==
  /\ HybridCall
  /\ Len(result) = 2
  /\ result[1].score > result[2].score
  /\ Len(MergeDuplicates(working)) > Len(result)

\* C6: a ranking of the items similar to a target never holds the target,
\* whether the target is among the candidates or not.
C6_TargetNotReturned ==
  SimilarCall => ~Includes(Ids(result), target[1].id)

\* C6 witness: the target was among the candidates, and others were returned.
C6_Witness ==
  /\ SimilarCall
  /\ Includes(Map(Candidates, LAMBDA i : i.id), target[1].id)
  /\ Len(result) > 0

\* C7, as claimed: a ranking of the items similar to a target never has more
\* than len(candidates) - 1 entries (stated here for a non-empty candidate
\* list only).
C7_Original ==
  (SimilarCall /\ Len(Candidates) > 0) => Len(result) <= Len(Candidates) - 1

\* C7, amended: a ranking of the items similar to a target has at most as many
\* entries as there are candidates other than the target: at most
\* len(candidates) - 1 when the target is among the candidates, at most
\* len(candidates) when it is not.
C7_AtMostOtherCandidates ==
  SimilarCall =>
    Len(result) <= Cardinality({i \in 1..Len(Candidates) :
                                  Candidates[i].id # target[1].id})

\* C7 witness: the filter shut the target out, and getRecommendations returned
\* every candidate.
C7_Witness ==
  /\ call = "getRecommendations"
  /\ target # <<>>
  /\ ~Includes(Map(filteredItems, LAMBDA i : i.id), target[1].id)
  /\ Len(filteredItems) > 0
  /\ Len(result) = Len(filteredItems)

\* C8: with filter.similarToItemId the id of a catalog item, getRecommendations
\* returns getSimilarItems(that item, the items the rest of the filter lets
\* through, count); no scorer adds to it, and the rating log and the
\* preferences make no difference.
C8_SimilarShortCircuit ==
  (/\ call = "getRecommendations"
   /\ filter.similarToItemId # NoStr
   /\ Includes(Map(allItems, LAMBDA i : i.id), filter.similarToItemId))
  => LET thatItem == CHOOSE i \in Range(allItems) : i.id = filter.similarToItemId
         narrowed == SelectSeq(allItems, LAMBDA i : Satisfies(i, filter))
     IN  /\ result = getSimilarItems(thatItem, narrowed, count)
         /\ working = <<>>
         /\ result = getRecommendations(allItems, <<>>, NoPrefs, filter, count)

\* C8 witness: the user had ratings and favourites, a filter narrowed the
\* catalog, and the similar items came back.
C8_Witness ==
  /\ call = "getRecommendations"
  /\ target # <<>>
  /\ ~userPrefs.isNull
  /\ Len(userPrefs.ratings) > 0
  /\ Len(userPrefs.favoriteGenres) > 0
  /\ Len(filteredItems) < Len(allItems)
  /\ Len(result) > 0

\* C9, as claimed: whenever filter.minRating is set, no candidate and no
\* returned item lacks an averageRating, and each has averageRating >= minRating.
C9_Original ==
  (call = "getRecommendations" /\ filter.minRating # NoVal) =>
    \A item \in Range(filteredItems) \cup {result[i].item : i \in 1..Len(result)} :
      item.averageRating # NoVal /\ item.averageRating >= filter.minRating

\* C9, amended: whenever filter.minRating is set to a value other than 0, no
\* candidate and no returned item lacks an averageRating, and each has
\* averageRating >= minRating.
C9_MinRatingExcludesUnrated ==
  (call = "getRecommendations" /\ filter.minRating # NoVal /\ filter.minRating # 0) =>
    \A item \in Range(filteredItems) \cup {result[i].item : i \in 1..Len(result)} :
      item.averageRating # NoVal /\ item.averageRating >= filter.minRating

\* C9 witness: the catalog held an item without averageRating, minRating 3.0
\* was asked for, and an item was returned.
C9_Witness ==
  /\ call = "getRecommendations"
  /\ filter.minRating = 30
  /\ \E i \in 1..Len(allItems) : allItems[i].averageRating = NoVal
  /\ Len(result) > 0

\* the five narrowings of the filter block, by number
Narrow(k, items, f) ==
  CASE k = 1 -> ByGenres(items, f)
    [] k = 2 -> ByMoods(items, f)
    [] k = 3 -> ByTags(items, f)
    [] k = 4 -> ByMinRating(items, f)
    [] k = 5 -> ByYearRange(items, f)

\* the narrowings applied in the order the sequence gives
RECURSIVE NarrowInOrder(_, _, _)
NarrowInOrder(order, items, f) ==
  IF order = <<>> THEN items
  ELSE NarrowInOrder(Tail(order), Narrow(Head(order), items, f), f)

\* every order of the five narrowings
Orders == {o \in [1..5 -> 1..5] : \A i, j \in 1..5 : i # j => o[i] # o[j]}

-----------------------------------------------------------------------------
(* C11 - C20 *)

\* C11: getRecommendations returns the empty list whenever the catalog is
\* empty or no item of it meets the filter, whatever the rating log, the
\* preferences, the count and the filter, one naming a similarToItemId
\* included.
C11_NothingFromNoCandidates ==
  (/\ call = "getRecommendations"
   /\ \A i \in 1..Len(allItems) : ~Satisfies(allItems[i], filter))
  => result = <<>>

\* C11 witness: the user had ratings, the filter named a catalog item as
\* similarToItemId and shut every item out, that item included, and a
\* positive count was asked for.
C11_Witness ==
  /\ call = "getRecommendations"
  /\ count > 0
  /\ Len(allItems) > 0
  /\ target # <<>>
  /\ ~userPrefs.isNull /\ Len(userPrefs.ratings) > 0
  /\ \A i \in 1..Len(allItems) : ~Satisfies(allItems[i], filter)
  /\ result = <<>>

\* C12: getCollaborativeRecommendations called with an empty list of the
\* current user's ratings returns the empty list, whatever the rating log, the
\* candidates and the count.
C12_NoHistoryNoRecommendation ==
  (call = "getCollaborativeRecommendations" /\ Len(userPrefs.ratings) = 0)
  => result = <<>>

\* C12 witness: the current user had no ratings, while the log held a rating
\* of 4 or more for a candidate, and a positive count was asked for.
C12_Witness ==
  /\ call = "getCollaborativeRecommendations"
  /\ Len(userPrefs.ratings) = 0
  /\ count > 0
  /\ \E r \in 1..Len(allRatings), i \in 1..Len(allItems) :
       allRatings[r].rating >= 4 /\ allRatings[r].itemId = allItems[i].id
  /\ result = <<>>

\* the ids of the items the list of ratings rates
RatedIds(ratings) == {ratings[i].itemId : i \in 1..Len(ratings)}

\* the rating is one of another user than the one whose ratings `mine` are,
\* and that user has rated an item `mine` rates
FromNeighbour(r, mine, ratings) ==
  /\ r.userId # mine[1].userId
  /\ \E k \in 1..Len(ratings) :
       ratings[k].userId = r.userId /\ ratings[k].itemId \in RatedIds(mine)

\* every entry of recs is a candidate the current user has not rated and a
\* neighbour has rated 4 or more
FromNeighbours(recs, mine, ratings, candidates) ==
  \A i \in 1..Len(recs) :
    /\ recs[i].item \in Range(candidates)
    /\ recs[i].item.id \notin RatedIds(mine)
    /\ \E k \in 1..Len(ratings) :
         /\ ratings[k].itemId = recs[i].item.id
         /\ ratings[k].rating >= 4
         /\ FromNeighbour(ratings[k], mine, ratings)

\* C13: every item getCollaborativeRecommendations returns, called directly
\* on the catalog or by getRecommendations on the filtered items, is a
\* candidate, is not rated by the current user, and is rated 4 or more by
\* another user who has rated an item the current user has rated; a rating of
\* an id that is no candidate gives no entry.
C13_CollaborativeEntries ==
  /\ call = "getCollaborativeRecommendations"
       => FromNeighbours(result, userPrefs.ratings, allRatings, allItems)
  /\ HybridCall
       => FromNeighbours(CollaborativePart(filteredItems, allRatings, userPrefs, count),
                         userPrefs.ratings, allRatings, filteredItems)

\* C13 witness: a neighbour rated 5 an id that is no candidate and rated 5 an
\* item the current user has rated too, and an item was returned.
C13_Witness ==
  /\ call = "getCollaborativeRecommendations"
  /\ Len(result) > 0
  /\ \E k, m \in 1..Len(allRatings) :
       /\ allRatings[k].rating = 5
       /\ FromNeighbour(allRatings[k], userPrefs.ratings, allRatings)
       /\ allRatings[k].itemId \notin RatedIds(userPrefs.ratings)
       /\ \A i \in 1..Len(allItems) : allItems[i].id # allRatings[k].itemId
       /\ allRatings[m].userId = allRatings[k].userId
       /\ allRatings[m].rating = 5
       /\ allRatings[m].itemId \in RatedIds(userPrefs.ratings)
       /\ \E i \in 1..Len(allItems) : allItems[i].id = allRatings[m].itemId

\* the users of the log, but the one whose ratings `mine` are, who have rated
\* an item `mine` rates
Overlapping(mine, ratings) ==
  {ratings[k].userId : k \in {j \in 1..Len(ratings) :
                                FromNeighbour(ratings[j], mine, ratings)}}

\* on every item both have rated, user u's rating is the current user's
Agrees(u, mine, ratings) ==
  \A k \in 1..Len(ratings) :
    (ratings[k].userId = u /\ ratings[k].itemId \in RatedIds(mine))
    => MapGet(RatingsOf(ratings, u), ratings[k].itemId)
         = MapGet(mine, ratings[k].itemId)

\* the candidates user u has rated 4 or 5 and the current user has not rated
Qualifying(u, mine, ratings, candidates) ==
  {id \in {candidates[i].id : i \in 1..Len(candidates)} \ RatedIds(mine) :
     \E k \in 1..Len(ratings) :
       ratings[k].userId = u /\ ratings[k].itemId = id /\ ratings[k].rating >= 4}

\* how far from 1 the similarity of two equal vectors can come out: each
\* magnitude is a rounded square root of at least one unit
RoundingSlack == (3 * SCALE) \div ROOT

\* C14, as claimed: a user who agrees with the current user on their common
\* items has similarity exactly 1; and with at most ten overlapping users,
\* each of that user's qualifying items is returned when count is at least
\* the number of that user's qualifying items.
C14_Original ==
  (call = "getCollaborativeRecommendations" /\ Len(userPrefs.ratings) > 0) =>
    \A u \in Overlapping(userPrefs.ratings, allRatings) :
      Agrees(u, userPrefs.ratings, allRatings) =>
        /\ calculateUserSimilarity(userPrefs.ratings, RatingsOf(allRatings, u))
             = SCALE
        /\ (/\ Cardinality(Overlapping(userPrefs.ratings, allRatings)) <= TopUsers
            /\ count >= Cardinality(Qualifying(u, userPrefs.ratings, allRatings,
                                                allItems)))
           => Qualifying(u, userPrefs.ratings, allRatings, allItems)
                \subseteq Range(Ids(result))

\* C14, amended: a user who agrees with the current user on their common
\* items has similarity 1 up to the rounding of the two square roots, and a
\* positive one; and with at most ten overlapping users, each of that user's
\* qualifying items is returned when count is at least the number of items
\* that qualify for any of the overlapping users.
C14_AgreeingUserSurfaces ==
  (call = "getCollaborativeRecommendations" /\ Len(userPrefs.ratings) > 0) =>
    LET mine == userPrefs.ratings
        overlapping == Overlapping(mine, allRatings)
        all == UNION {Qualifying(v, mine, allRatings, allItems) : v \in overlapping}
    IN  \A u \in overlapping :
          Agrees(u, mine, allRatings) =>
            LET similarity == calculateUserSimilarity(mine, RatingsOf(allRatings, u))
            IN  /\ similarity > 0
                /\ similarity - SCALE <= RoundingSlack
                /\ SCALE - similarity <= RoundingSlack
                /\ (Cardinality(overlapping) <= TopUsers
                      /\ count >= Cardinality(all))
                   => Qualifying(u, mine, allRatings, allItems)
                        \subseteq Range(Ids(result))

\* C14 witness: two users agreed with the current user, each had a qualifying
\* item the other had not, and both items were returned.
C14_Witness ==
  /\ call = "getCollaborativeRecommendations"
  /\ Len(userPrefs.ratings) > 0
  /\ \E u, v \in Overlapping(userPrefs.ratings, allRatings) :
       LET qu == Qualifying(u, userPrefs.ratings, allRatings, allItems)
           qv == Qualifying(v, userPrefs.ratings, allRatings, allItems)
       IN  /\ Agrees(u, userPrefs.ratings, allRatings)
           /\ Agrees(v, userPrefs.ratings, allRatings)
           /\ qu \ qv # {} /\ qv \ qu # {}
           /\ count >= Cardinality(qu \cup qv)
           /\ (qu \cup qv) \subseteq Range(Ids(result))

\* C15: every entry getTrending returns is an item of the catalog with at
\* least one rating in the log; an item without ratings is never returned,
\* and a rating of an id that is no catalog item gives no entry.
C15_TrendingItemsAreRated ==
  call = "getTrending" =>
    \A i \in 1..Len(result) :
      /\ result[i].item \in Range(allItems)
      /\ result[i].item.id \in RatedIds(allRatings)

\* C15 witness: the catalog held an item nobody rated, the log held a rating
\* of an id outside the catalog, and getTrending returned fewer entries than
\* it was asked for.
C15_Witness ==
  /\ call = "getTrending"
  /\ Len(result) > 0
  /\ Len(result) < count
  /\ \E i \in 1..Len(allItems) : allItems[i].id \notin RatedIds(allRatings)
  /\ \E id \in RatedIds(allRatings) : \A i \in 1..Len(allItems) : allItems[i].id # id

\* the number of ratings of the item in the log, and of those at most thirty
\* days old when getTrending read the clock
TotalCount(id) == Cardinality({k \in 1..Len(allRatings) : allRatings[k].itemId = id})

RecentCount(id) ==
  Cardinality({k \in 1..Len(allRatings) :
                 /\ allRatings[k].itemId = id
                 /\ now - allRatings[k].createdAt <= RecentDays})

\* C16: every entry getTrending returns has score 0.7 * recentCount + 0.3 *
\* totalCount; the list is in non-increasing order of that score; and of two
\* rated catalog items with equal totalCount, the one with more recent ratings
\* is neither ranked below the other nor left out when the other is returned.
C16_TrendingScore ==
  call = "getTrending" =>
    /\ \A i \in 1..Len(result) :
         10 * result[i].score
           = 7 * SCALE * RecentCount(result[i].item.id)
             + 3 * SCALE * TotalCount(result[i].item.id)
    /\ \A i, j \in 1..Len(result) : i < j => result[i].score >= result[j].score
    /\ \A i, j \in 1..Len(result) :
         (/\ TotalCount(result[i].item.id) = TotalCount(result[j].item.id)
          /\ RecentCount(result[i].item.id) > RecentCount(result[j].item.id))
         => i < j
    /\ \A j \in 1..Len(result), m \in 1..Len(allItems) :
         (/\ TotalCount(allItems[m].id) = TotalCount(result[j].item.id)
          /\ RecentCount(allItems[m].id) > RecentCount(result[j].item.id))
         => Includes(Ids(result), allItems[m].id)

\* C16 witness: two items with the same number of ratings were returned, the
\* first with more recent ones, one of them exactly thirty days old.
C16_Witness ==
  /\ call = "getTrending"
  /\ Len(result) = 2
  /\ TotalCount(result[1].item.id) = TotalCount(result[2].item.id)
  /\ RecentCount(result[1].item.id) > RecentCount(result[2].item.id)
  /\ result[1].score > result[2].score
  /\ \E k \in 1..Len(allRatings) :
       /\ allRatings[k].itemId = result[1].item.id
       /\ now - allRatings[k].createdAt = RecentDays

\* the averageRating of the item, a missing one taken as 0
RatingOr0(item) == IF item.averageRating = NoVal THEN 0 ELSE item.averageRating

\* the smaller of two numbers
Min(a, b) == IF a < b THEN a ELSE b

\* where the item stands in the sequence of items
PlaceIn(items, item) == CHOOSE i \in 1..Len(items) : items[i] = item

\* C17: when the collaborative and the preference step leave fewer than count
\* entries, the entries getRecommendations adds are the first (count - length)
\* of the filtered items not yet present, taken by averageRating descending,
\* a missing averageRating counting as 0 and equals keeping their order; else
\* it adds none.  With null preferences the items returned are therefore the
\* min(count, n) filtered items of highest averageRating.
C17_PopularFill ==
  HybridCall =>
    LET scored == CollaborativePart(filteredItems, allRatings, userPrefs, count)
                  \o ContentPart(filteredItems, userPrefs, count)
        added == Map(SubSeq(working, Len(scored) + 1, Len(working)),
                     LAMBDA r : r.item)
        fresh == SelectSeq(filteredItems,
                           LAMBDA item : ~Includes(Ids(scored), item.id))
        leftOut == Range(fresh) \ Range(added)
        returned == {result[i].item : i \in 1..Len(result)}
    IN  /\ SubSeq(working, 1, Len(scored)) = scored
        /\ Len(scored) >= count => added = <<>>
        /\ Len(scored) < count => Len(added) = Min(count - Len(scored), Len(fresh))
        /\ Range(added) \subseteq Range(fresh)
        /\ NoRepeat(added)
        /\ \A i, j \in 1..Len(added) :
             i < j => \/ RatingOr0(added[i]) > RatingOr0(added[j])
                      \/ /\ RatingOr0(added[i]) = RatingOr0(added[j])
                         /\ PlaceIn(filteredItems, added[i])
                              < PlaceIn(filteredItems, added[j])
        /\ \A a \in Range(added), f \in leftOut :
             \/ RatingOr0(a) > RatingOr0(f)
             \/ /\ RatingOr0(a) = RatingOr0(f)
                /\ PlaceIn(filteredItems, a) < PlaceIn(filteredItems, f)
        /\ userPrefs.isNull =>
             /\ Cardinality(returned) = Min(count, Len(filteredItems))
             /\ returned \subseteq Range(filteredItems)
             /\ \A r \in returned, f \in Range(filteredItems) \ returned :
                  RatingOr0(r) >= RatingOr0(f)

\* C17 witness: one entry came from the scorers, count asked for a second, and
\* of the filtered items not yet present the fill took the best rated and left
\* one without averageRating out.
C17_Witness ==
  /\ HybridCall
  /\ ~userPrefs.isNull
  /\ LET scored == CollaborativePart(filteredItems, allRatings, userPrefs, count)
                    \o ContentPart(filteredItems, userPrefs, count)
     IN  /\ Len(scored) > 0
         /\ Len(scored) < count
         /\ Len(working) = count
         /\ working[count].item.averageRating # NoVal
  /\ \E f \in Range(filteredItems) :
       /\ f.averageRating = NoVal
       /\ ~Includes(Ids(working), f.id)

FiniteScores(recs) == \A i \in 1..Len(recs) : recs[i].score # NotFinite

\* C20: every score of every list an entry point returns is a finite number,
\* those of the working list of getRecommendations included: the number of
\* contributions the collaborative total is divided by is at least 1 for
\* every item returned, and no similarity comes from a division by zero.
C20_FiniteScores ==
  /\ FiniteScores(result)
  /\ FiniteScores(working)
  /\ (call = "getCollaborativeRecommendations" /\ Len(userPrefs.ratings) > 0) =>
       /\ \A i \in 1..Len(result) :
            \E c \in Range(Contributions(userPrefs.ratings, allRatings)) :
              c.itemId = result[i].item.id
       /\ \A s \in Range(SimilarUsers(userPrefs.ratings, allRatings)) :
            s.similarity # NotFinite

\* C20 witness: getCollaborativeRecommendations returned an item one
\* neighbour contributed to and an item two neighbours contributed to.
C20_Witness ==
  /\ call = "getCollaborativeRecommendations"
  /\ Len(result) = 2
  /\ \E i, j \in 1..2 :
       LET contributions == Contributions(userPrefs.ratings, allRatings)
           times(id) == Cardinality({k \in 1..Len(contributions) :
                                       contributions[k].itemId = id})
       IN  times(result[i].item.id) = 1 /\ times(result[j].item.id) = 2

-----------------------------------------------------------------------------
(* C21 - C30 *)

\* every slot of the vector is zero (the empty vector included)
AllZero(v) == \A i \in 1..Len(v) : v[i] = 0

\* C21: cosineSimilarity returns 0 when its two vectors differ in length, and
\* when either has all its slots zero.
C21_CosineOfNothing ==
  (Len(cosVec1) # Len(cosVec2) \/ AllZero(cosVec1) \/ AllZero(cosVec2)) => cosine = 0

\* C21 witness: of two vectors of the same positive length the first was all
\* zero and the second was not, and the similarity was 0.
C21_Witness ==
  /\ Len(cosVec1) = Len(cosVec2)
  /\ Len(cosVec1) > 0
  /\ AllZero(cosVec1)
  /\ ~AllZero(cosVec2)
  /\ cosine = 0

\* the values of one field (genres, moods or tags) that occur in a collection
Occurring(items, field) ==
  UNION {{items[i][field][k] : k \in 1..Len(items[i][field])} : i \in 1..Len(items)}

StrictlyAscending(seq) == \A i \in 1..(Len(seq) - 1) : Rank(seq[i]) < Rank(seq[i + 1])

\* C22: a vocabulary is strictly ascending, holds exactly the values that occur
\* in the collection, and is the sequence extractFeatures builds for it.
C22_Vocabulary ==
  vocCall # "none" =>
    /\ StrictlyAscending(vocabulary)
    /\ Range(vocabulary) = Occurring(vocItems, vocCall)
    /\ vocabulary = extractFeatures(vocItems)[vocCall]

C22_Witness ==
  /\ vocCall = "genres"
  /\ Len(vocItems) >= 2
  /\ vocItems[1].genres = <<"Drama">>
  /\ vocItems[2].genres = <<"Comedy", "Drama">>
  /\ vocabulary = <<"Comedy", "Drama">>

\* C23: in what any entry point returns, no Recommendation lists a reason
\* twice - an entry merged from a collaborative and a content-based entry
\* included.
C23_ReasonsNotRepeated ==
  call # "none" => \A k \in 1..Len(result) : NoRepeat(result[k].reasons)

\* C23 witness: getRecommendations returned an entry merged from a
\* collaborative entry, which two neighbours contributed to, and a
\* content-based entry with a reason of its own.
C23_Witness ==
  /\ HybridCall
  /\ \E k \in 1..Len(result) :
       /\ Len(SelectSeq(working, LAMBDA r : r.item.id = result[k].item.id)) = 2
       /\ Len(result[k].reasons) >= 2
       /\ result[k].reasons[1] = Reason("Recommended by similar users", <<>>)
       /\ Len(SelectSeq(Contributions(userPrefs.ratings, allRatings),
                        LAMBDA c : c.itemId = result[k].item.id)) = 2

\* the similarity of every other user of the log to the current user
SimilarityTo ==
  [u \in Range(UserIds(allRatings)) \ {userPrefs.userId} |->
     calculateUserSimilarity(userPrefs.ratings, RatingsOf(allRatings, u))]

\* the other users whose similarity to the current user is positive
Positive == {u \in DOMAIN SimilarityTo : SimilarityTo[u] > 0}

\* the ratings of at least 4 the users of N gave an item
LikedBy(N, itemId) ==
  SelectSeq(allRatings, LAMBDA r : r.userId \in N /\ r.itemId = itemId /\ r.rating >= 4)

\* C24: the score of every item getCollaborativeRecommendations returns is
\* the sum of rating * similarity over the neighbours that rated it 4 or more,
\* divided by their number, the neighbours being the at most ten most similar
\* users of positive similarity; nobody else contributes to a score or an item.
C24_NeighbourAverage ==
  (call = "getCollaborativeRecommendations" /\ Len(userPrefs.ratings) > 0) =>
    LET similarity == SimilarityTo
        positive == {u \in DOMAIN similarity : similarity[u] > 0}
        size == Min(TopUsers, Cardinality(positive))
    IN  \E N \in {M \in SUBSET positive : Cardinality(M) = size} :
          /\ \A u \in N, v \in positive \ N : similarity[u] >= similarity[v]
          /\ \A k \in 1..Len(result) :
               LET likes == LikedBy(N, result[k].item.id)
               IN  /\ Len(likes) > 0
                   /\ result[k].score =
                        Sum([i \in 1..Len(likes) |->
                              likes[i].rating * similarity[likes[i].userId]])
                          \div Len(likes)

\* C24 witness: eleven users are of positive similarity, the least similar is
\* the only one to like a movie of the catalog, and the ranking, asked for
\* two, returned only the movie two of the ten like.
C24_Witness ==
  /\ call = "getCollaborativeRecommendations"
  /\ Cardinality(Positive) > TopUsers
  /\ count = 2
  /\ Len(result) = 1
  /\ Len(LikedBy(Positive, result[1].item.id)) = 2
  /\ \E i \in 1..Len(allItems) :
       /\ allItems[i].id # result[1].item.id
       /\ Len(LikedBy(Positive, allItems[i].id)) = 1

\* C25: when getRecommendations does not hand over to getSimilarItems, it
\* returns min(count, n) entries, n being the number of items that pass the
\* filter, whatever the rating log and the preferences.
C25_ExactlyEnough ==
  (call = "getRecommendations" /\ target = <<>>) =>
    Len(result) = Min(count, Len(filteredItems))

\* C25 witness: the working list named an item twice, the merge made one
\* entry of the two, and the result still has count entries.
C25_Witness ==
  /\ HybridCall
  /\ count >= 2
  /\ ~NoRepeat(Ids(working))
  /\ Len(filteredItems) >= count
  /\ Len(result) = count

\* how often an id occurs among the items of a list of recommendations
Occurrences(recs, id) == Len(SelectSeq(recs, LAMBDA r : r.item.id = id))

\* C26: the working list of getRecommendations names an item at most twice:
\* at most once among the collaborative entries, at most once among the
\* preference entries, and a popularity fill-in is of no item named before.
C26_AtMostTwice ==
  HybridCall =>
    LET collaborative == Len(CollaborativePart(filteredItems, allRatings, userPrefs,
                                               count))
        scored == collaborative + Len(ContentPart(filteredItems, userPrefs, count))
    IN  /\ scored <= Len(working)
        /\ NoRepeat(Ids(SubSeq(working, 1, collaborative)))
        /\ NoRepeat(Ids(SubSeq(working, collaborative + 1, scored)))
        /\ \A k \in (scored + 1)..Len(working) :
             Occurrences(working, working[k].item.id) = 1
        /\ \A k \in 1..Len(working) :
             Occurrences(working, working[k].item.id) <= 2

\* C26 witness: the collaborative scorer named two items, the preference
\* scorer named one of them again, and that one is twice in the working list.
C26_Witness ==
  /\ HybridCall
  /\ LET collaborative == CollaborativePart(filteredItems, allRatings, userPrefs,
                                            count)
         content == ContentPart(filteredItems, userPrefs, count)
     IN  \E i \in 1..Len(collaborative), j \in 1..Len(content) :
           /\ Len(collaborative) >= 2
           /\ collaborative[i].item.id = content[j].item.id
           /\ Occurrences(working, content[j].item.id) = 2

\* the places in the working list of the popularity fill-ins
FillIns ==
  (Len(CollaborativePart(filteredItems, allRatings, userPrefs, count))
     + Len(ContentPart(filteredItems, userPrefs, count)) + 1) .. Len(working)

\* the place of an item in a list of recommendations that holds it
PlaceOf(recs, id) == CHOOSE k \in 1..Len(recs) : recs[k].item.id = id

\* the claim as made: in the returned list a fill-in without averageRating
\* comes before every fill-in whose averageRating is below 3.5
C27_Original ==
  HybridCall =>
    \A i, j \in FillIns :
      ( /\ working[i].item.averageRating = NoVal
        /\ working[j].item.averageRating # NoVal
        /\ working[j].item.averageRating < 35
        /\ Includes(Ids(result), working[i].item.id)
        /\ Includes(Ids(result), working[j].item.id) )
      => PlaceOf(result, working[i].item.id) < PlaceOf(result, working[j].item.id)

\* C27: a fill-in's score is its averageRating when that is present and
\* non-zero and 3.5 otherwise, and in the returned list a fill-in without
\* averageRating comes before every fill-in whose averageRating is non-zero and
\* below 3.5.
C27_UnratedFillFirst ==
  HybridCall =>
    /\ \A i \in FillIns :
         working[i].score =
           IF working[i].item.averageRating \notin {NoVal, 0}
             THEN working[i].item.averageRating * (SCALE \div 10)
             ELSE (35 * SCALE) \div 10
    /\ \A i, j \in FillIns :
         ( /\ working[i].item.averageRating = NoVal
           /\ working[j].item.averageRating \notin {NoVal, 0}
           /\ working[j].item.averageRating < 35
           /\ Includes(Ids(result), working[i].item.id)
           /\ Includes(Ids(result), working[j].item.id) )
         => PlaceOf(result, working[i].item.id) < PlaceOf(result, working[j].item.id)

\* C27 witness: the fill took a movie rated 3.0 first and one without
\* averageRating second, and the returned list has them the other way round.
C27_Witness ==
  /\ HybridCall
  /\ \E i, j \in FillIns :
       /\ j < i
       /\ working[i].item.averageRating = NoVal
       /\ working[j].item.averageRating = 30
       /\ Includes(Ids(result), working[i].item.id)
       /\ Includes(Ids(result), working[j].item.id)
       /\ PlaceOf(result, working[i].item.id) < PlaceOf(result, working[j].item.id)

\* C28: when filter.similarToItemId is the id of no item of the catalog,
\* getRecommendations returns, without raising, what it returns for the same
\* arguments and the filter without similarToItemId.
C28_UnknownTargetIgnored ==
  ( /\ call = "getRecommendations"
    /\ filter.similarToItemId # NoStr
    /\ ~Includes(Map(allItems, LAMBDA i : i.id), filter.similarToItemId) )
  => result = getRecommendations(allItems, allRatings, userPrefs,
                                 [filter EXCEPT !.similarToItemId = NoStr],
                                 count)

\* C28 witness: the filter names movie A, the catalog has no such movie, and
\* the call returned recommendations.
C28_Witness ==
  /\ call = "getRecommendations"
  /\ filter.similarToItemId = "A"
  /\ ~Includes(Map(allItems, LAMBDA i : i.id), "A")
  /\ Len(allItems) > 0
  /\ Len(result) = count
  /\ count > 0

\* the (userId, itemId) pairs of a list of ratings, in its order
Pairs(ratings) == [i \in 1..Len(ratings) |-> <<ratings[i].userId, ratings[i].itemId>>]

\* the stored ratings of one item
StoredFor(ratings, itemId) == SelectSeq(ratings, LAMBDA r : r.itemId = itemId)

\* C29: across every ratingsApi.upsert in localStorage mode the stored list
\* holds one rating per (userId, itemId) at most; the ratings stored before keep
\* their place, id and createdAt; the rating of the pair upserted has the value
\* and comment given; and every stored item with a stored rating has their mean
\* as averageRating and their number as ratingsCount.
C29_UpsertKeepsOnePerPair ==
  [][ /\ NoRepeat(Pairs(ratingsStore'))
      /\ Len(ratingsStore') >= Len(ratingsStore)
      /\ \A i \in 1..Len(ratingsStore) :
           /\ ratingsStore'[i].id = ratingsStore[i].id
           /\ ratingsStore'[i].createdAt = ratingsStore[i].createdAt
           /\ Pairs(ratingsStore')[i] = Pairs(ratingsStore)[i]
           /\ ratingsStore[i].itemId # upsertArgs'.itemId
                => ratingsStore'[i] = ratingsStore[i]
      /\ Includes(Pairs(ratingsStore), <<userIdStore', upsertArgs'.itemId>>)
           => Len(ratingsStore') = Len(ratingsStore)
      /\ \E i \in 1..Len(ratingsStore') :
           /\ Pairs(ratingsStore')[i] = <<userIdStore', upsertArgs'.itemId>>
           /\ ratingsStore'[i].rating = upsertArgs'.rating
           /\ ratingsStore'[i].comment = upsertArgs'.comment
      /\ \A k \in 1..Len(itemsStore'.value) :
           LET item == itemsStore'.value[k]
               theirs == StoredFor(ratingsStore', item.id)
           IN  Len(theirs) > 0 =>
                 /\ item.ratingsCount = Len(theirs)
                 /\ item.averageRating * Len(theirs)
                      = 10 * Sum([i \in 1..Len(theirs) |-> theirs[i].rating])
    ]_vars

\* C29 witness: movie A was rated, movie B after it, then A again: A's rating
\* is still first, with the id and date of the first call and the stars of
\* the third, which are A's averageRating.
C29_Witness ==
  /\ clock = 3
  /\ Len(ratingsStore) = 2
  /\ ratingsStore[1].itemId = "A"
  /\ ratingsStore[1].id = 1
  /\ ratingsStore[1].createdAt = ToJSON(DateAt(1))
  /\ ratingsStore[2].itemId = "B"
  /\ upsertArgs = [itemId |-> "A", rating |-> 5, comment |-> NoStr]
  /\ ratingsStore[1].rating = 5
  /\ ratingsStore[1].comment = NoStr
  /\ itemsStore.value[1] = StoredItem("A", 50, 1)

\* C30: a read that Supabase fails with an error isNetworkError accepts
\* disables Supabase and calls itself again once, which returns from
\* localStorage; a read failed with any other error throws and leaves Supabase
\* as it is; a read called while Supabase is disabled returns from
\* localStorage; and only enableSupabase makes Supabase available again.
C30_FallBackOnce ==
  [][ /\ \A a \in Apis :
           LET before == reads[a]
               after == reads'[a]
           IN  /\ after.retries <= 1
               /\ (lastOp' = "fail" /\ after # before /\ isNetworkError(after.error))
                    => /\ ~supabaseAvailable'
                       /\ disabledKey'
                       /\ after.retries = before.retries + 1
                       /\ after.pc = "returned"
                       /\ after.served = "localStorage"
               /\ (lastOp' = "fail" /\ after # before /\ ~isNetworkError(after.error))
                    => /\ after.pc = "thrown"
                       /\ after.retries = before.retries
                       /\ supabaseAvailable' = supabaseAvailable
                       /\ disabledKey' = disabledKey
               /\ (lastOp' = "call" /\ after # before /\ ~supabaseAvailable)
                    => /\ after.pc = "returned"
                       /\ after.served = "localStorage"
      /\ (~supabaseAvailable /\ supabaseAvailable') => lastOp' = "enableSupabase"
    ]_vars

\* C30 witness: Supabase is configured; itemsApi.getAll failed with a failed
\* fetch, called itself again once and returned from localStorage; a
\* ratingsApi.getAll returned from localStorage without going to Supabase.
C30_Witness ==
  /\ supabaseConfigured
  /\ ~supabaseAvailable
  /\ disabledKey
  /\ reads["items"] = [pc |-> "returned", retries |-> 1, served |-> "localStorage",
                       error |-> Failure({"Failed to fetch"}, NoStr)]
  /\ reads["ratings"] = [pc |-> "returned", retries |-> 0, served |-> "localStorage",
                         error |-> NoError]
====
